---- MODULE Spec2Model ----
(***************************************************************************)
(* Asynchronous execution model of the HTTP request client:                *)
(*   - Promise (Resolve / Reject / Wait / Then / Catch), async.go part of  *)
(*     src/middleware.go lines 153-229;                                    *)
(*   - AsyncClient.SendAsync, SendConcurrent, SendConcurrentWithLimit,     *)
(*     src/middleware.go lines 231-347;                                    *)
(*   - Client.Request, src/unnamed/part_000 lines 329-384, as the          *)
(*     operation every worker executes;                                    *)
(*   - HandlerStack, RetryMiddleware, TimeoutMiddleware and                *)
(*     ExponentialBackoff, src/middleware.go lines 17-145.                 *)
(* Goroutines are records in the sequence gs; each step of a goroutine is  *)
(* one action, so every interleaving the Go scheduler allows is a          *)
(* behaviour of the model.                                                 *)
(***************************************************************************)
EXTENDS Integers, Sequences, FiniteSets, TLC

VARIABLES
    promises,   \* sequence of Promise objects, in allocation order
    gs,         \* sequence of goroutines, in spawn order
    panicked,   \* TRUE once some goroutine panicked (close of a closed channel)
    requests,   \* the []ConcurrentRequest given to SendConcurrent(WithLimit)
    limited,    \* TRUE for SendConcurrentWithLimit, FALSE for SendConcurrent
    limit,      \* the limit argument (capacity of the semaphore channel)
    results,    \* the results slice of the bulk call
    writes,     \* the indices of the slots written, in the order of the writes
    sem,        \* number of tokens held in the semaphore channel
    wg,         \* the sync.WaitGroup counter
    mainpc,     \* position of the goroutine executing the bulk call
    loopi,      \* the range loop's index variable i
    workers,    \* the worker goroutines of the bulk call, in spawn order
    returned,   \* the slice handed back to the caller, as it was on return
    hs,         \* the HandlerStack object
    execs,      \* the executions started through HandlerStack.Next
    rt,         \* the call of the handler built by RetryMiddleware
    tm,         \* the calls of the handler built by TimeoutMiddleware
    lg,         \* the calls of the handler built by LoggingMiddleware
    bk,         \* the call of ExponentialBackoff.Delay
    rq          \* the call of Client.Request followed step by step

pvars == <<promises, gs, panicked>>
cvars == <<requests, limited, limit, results, writes, sem, wg, mainpc, loopi,
           workers, returned>>
ovars == <<lg, bk, rq>>
mvars == <<hs, execs, rt, tm, lg, bk, rq>>
vars == <<promises, gs, panicked, requests, limited, limit, results, writes,
          sem, wg, mainpc, loopi, workers, returned, hs, execs, rt, tm,
          lg, bk, rq>>

----------------------------------------------------------------------------
(* Bounds of the model *)

MaxSettle == 3      \* concurrent Resolve / Reject calls on one promise
MaxWait == 2        \* concurrent Wait calls on one promise
MaxChain == 2       \* Then / Catch calls made on a chain of promises
MaxSend == 2        \* SendAsync calls
MaxN == 2           \* length of the request slice of a bulk call
MaxLimit == 2       \* largest limit given to SendConcurrentWithLimit
MaxStack == 3       \* middlewares pushed on a HandlerStack
MaxExec == 2        \* executions started on one HandlerStack
MaxRetries == 2     \* largest maxRetries given to RetryMiddleware
MaxBase == 1        \* largest BaseDelay of a backoff; MaxDelay is up to twice it
MaxCalls == 2       \* calls of the handler built by TimeoutMiddleware
MaxTimeout == 1     \* largest duration given to TimeoutMiddleware
MaxLogged == 2      \* calls of the handler built by LoggingMiddleware
MaxDur == 1         \* largest duration given to WithTimeout or RequestOptions.Timeout
MaxLatency == 2     \* largest time the transport takes to answer a quick request
DurBits == 8        \* width of the signed word that stands for time.Duration
MaxCap == 3         \* largest MaxDelay of a backoff whose Delay is called by itself

----------------------------------------------------------------------------
(* Values.  A *Response and an error are sequences of strings, so that a    *)
(* callback can build its result from its argument; the empty sequence is  *)
(* nil.                                                                    *)

Nil == <<>>
ValNames == <<"v1", "v2", "v3", "v4", "v5", "v6", "v7", "v8", "v9">>
RespVal(g) == <<"resp", ValNames[g]>>   \* the response passed by call number g
ErrVal(g) == <<"err", ValNames[g]>>     \* the error passed by call number g

ThenFns == {"wrap", "fail"}             \* func(*Response) (*Response, error)
CatchFns == {"wrap", "swallow"}         \* func(error) error

\* The callbacks handed to Then: what fn(resp) returns.
ApplyThen(fn, resp) ==
    CASE fn = "wrap" -> <<Append(resp, "then"), Nil>>
      [] fn = "fail" -> <<Nil, <<"failed">> \o resp>>

\* The callbacks handed to Catch: what fn(err) returns.
ApplyCatch(fn, err) ==
    CASE fn = "wrap"    -> Append(err, "caught")
      [] fn = "swallow" -> Nil

----------------------------------------------------------------------------
(* Promise *)

\* NewPromise(): nil response, nil error, open done channel, unused Once.
\* closed counts the close(p.done) calls made; onceMu holds the goroutine
\* inside once.Do (0 when free), onceDone is the Once's done flag.
NewPromise ==
    [response |-> Nil, err |-> Nil, closed |-> 0, onceDone |-> FALSE, onceMu |-> 0]

\* A goroutine. op is the function it was started for; p the promise it
\* settles or waits on; src the promise a continuation waits on; kind/val the
\* Resolve(val) or Reject(val) call it makes; ran whether its once.Do ran the
\* closure; ret what Wait returned to it; calls how often it invoked fn;
\* arg the value fn was invoked with; req the request of a SendAsync worker.
Goroutine(op, p, src, fn, kind, val, pc, req) ==
    [op |-> op, p |-> p, src |-> src, fn |-> fn, kind |-> kind, val |-> val,
     pc |-> pc, ran |-> FALSE, ret |-> <<>>, calls |-> 0, arg |-> Nil,
     req |-> req]

PIds == 1..Len(promises)
GIds == 1..Len(gs)

Settled(p) == promises[p].closed >= 1
Pending(p) == promises[p].closed = 0

NumOp(ops) == Cardinality({g \in GIds : gs[g].op \in ops})

\* sync.Once entered without looking at the done flag: the closure runs on
\* every call.
OnceDo_NoDoneCheck(g) ==
    LET p == gs[g].p IN
    /\ gs[g].pc = "once"
    /\ promises[p].onceMu = 0
    /\ promises' = [promises EXCEPT ![p].onceMu = g]
    /\ gs' = [gs EXCEPT ![g].pc = "assign"]
    /\ UNCHANGED panicked

\* p.once.Do(f), entry: return at once when the Once is done; otherwise take
\* the Once's mutex (blocking while another goroutine is inside Do).
OnceDo(g) ==
    LET p == gs[g].p IN
    /\ gs[g].pc = "once"
    /\ IF promises[p].onceDone
       THEN /\ gs' = [gs EXCEPT ![g].pc = "done"]
            /\ UNCHANGED promises
       ELSE /\ promises[p].onceMu = 0
            /\ promises' = [promises EXCEPT ![p].onceMu = g]
            /\ gs' = [gs EXCEPT ![g].pc = "assign"]
    /\ UNCHANGED panicked

\* close(p.done): closing a closed channel panics.
CloseDone(g) ==
    LET p == gs[g].p IN
    /\ gs[g].pc = "close"
    /\ IF promises[p].closed >= 1
       THEN /\ panicked' = TRUE
            /\ promises' = [promises EXCEPT ![p].closed = @ + 1]
            /\ gs' = [gs EXCEPT ![g].pc = "panic"]
       ELSE /\ promises' = [promises EXCEPT ![p].closed = 1]
            /\ gs' = [gs EXCEPT ![g].pc = "unlock"]
            /\ UNCHANGED panicked

\* once.Do returning with the mutex released and the done flag left unset.
OnceExit_LeavesOpen(g) ==
    LET p == gs[g].p IN
    /\ gs[g].pc = "unlock"
    /\ promises' = [promises EXCEPT ![p].onceMu = IF @ = g THEN 0 ELSE @]
    /\ gs' = [gs EXCEPT ![g].pc = "done", ![g].ran = TRUE]
    /\ UNCHANGED panicked

\* once.Do returning after the closure ran: done flag set, mutex released.
OnceExit(g) ==
    LET p == gs[g].p IN
    /\ gs[g].pc = "unlock"
    /\ promises' = [promises EXCEPT ![p].onceDone = TRUE,
                                    ![p].onceMu = IF @ = g THEN 0 ELSE @]
    /\ gs' = [gs EXCEPT ![g].pc = "done", ![g].ran = TRUE]
    /\ UNCHANGED panicked

\* Resolve with the two statements of the closure swapped: close(p.done)
\* before p.response = response.
Resolve_CloseFirst(g) ==
    /\ gs[g].kind = "resolve"
    /\ \/ OnceDo(g)
       \/ /\ gs[g].pc = "assign"
          /\ promises' = [promises EXCEPT ![gs[g].p].closed = @ + 1]
          /\ gs' = [gs EXCEPT ![g].pc = "late_assign"]
          /\ UNCHANGED panicked
       \/ /\ gs[g].pc = "late_assign"
          /\ promises' = [promises EXCEPT ![gs[g].p].response = gs[g].val]
          /\ gs' = [gs EXCEPT ![g].pc = "unlock"]
          /\ UNCHANGED panicked
       \/ OnceExit(g)

\* Resolve(response), the steps of goroutine g inside it.
Resolve(g) ==
    /\ gs[g].kind = "resolve"
    /\ \/ OnceDo(g)
       \/ /\ gs[g].pc = "assign"
          /\ promises' = [promises EXCEPT ![gs[g].p].response = gs[g].val]
          /\ gs' = [gs EXCEPT ![g].pc = "close"]
          /\ UNCHANGED panicked
       \/ CloseDone(g)
       \/ OnceExit(g)

\* Reject written without the Once: p.err = err; close(p.done).
Reject_NoOnce(g) ==
    /\ gs[g].kind = "reject"
    /\ \/ /\ gs[g].pc = "once"
          /\ gs' = [gs EXCEPT ![g].pc = "assign"]
          /\ UNCHANGED <<promises, panicked>>
       \/ /\ gs[g].pc = "assign"
          /\ promises' = [promises EXCEPT ![gs[g].p].err = gs[g].val]
          /\ gs' = [gs EXCEPT ![g].pc = "close"]
          /\ UNCHANGED panicked
       \/ CloseDone(g)
       \/ OnceExit(g)

\* Reject(err), the steps of goroutine g inside it.
Reject(g) ==
    /\ gs[g].kind = "reject"
    /\ \/ OnceDo(g)
       \/ /\ gs[g].pc = "assign"
          /\ promises' = [promises EXCEPT ![gs[g].p].err = gs[g].val]
          /\ gs' = [gs EXCEPT ![g].pc = "close"]
          /\ UNCHANGED panicked
       \/ CloseDone(g)
       \/ OnceExit(g)

\* <-p.done can be received from only once the channel is closed.
CanReceiveDone(p) == promises[p].closed >= 1

\* return p.response, p.err
WaitReturn(p) == <<promises[p].response, promises[p].err>>

\* Wait(), called by goroutine g.
Wait(g) ==
    /\ gs[g].op = "Wait"
    /\ gs[g].pc = "wait"
    /\ CanReceiveDone(gs[g].p)
    /\ gs' = [gs EXCEPT ![g].pc = "done", ![g].ret = WaitReturn(gs[g].p)]
    /\ UNCHANGED <<promises, panicked>>

\* Then written to wait for the source in the caller.
Then_Blocking(p, fn) ==
    /\ NumOp({"Then", "Catch"}) < MaxChain
    /\ CanReceiveDone(p)
    /\ promises' = Append(promises, NewPromise)
    /\ gs' = Append(gs, [Goroutine("Then", Len(promises) + 1, p, fn, "none", Nil,
                                   "branch", <<>>) EXCEPT !.ret = WaitReturn(p)])
    /\ UNCHANGED panicked

\* Then(fn), the caller's part: newPromise := NewPromise(); go func(){...}();
\* return newPromise.
Then(p, fn) ==
    /\ NumOp({"Then", "Catch"}) < MaxChain
    /\ promises' = Append(promises, NewPromise)
    /\ gs' = Append(gs, Goroutine("Then", Len(promises) + 1, p, fn, "none", Nil,
                                  "wait", <<>>))
    /\ UNCHANGED panicked

\* The goroutine of Then with the error of fn dropped: newPromise.Resolve
\* whatever fn returned.
ThenGo_DropFnErr(g) ==
    /\ gs[g].op = "Then"
    /\ \/ /\ gs[g].pc = "wait"
          /\ CanReceiveDone(gs[g].src)
          /\ gs' = [gs EXCEPT ![g].pc = "branch", ![g].ret = WaitReturn(gs[g].src)]
       \/ /\ gs[g].pc = "branch"
          /\ LET resp == gs[g].ret[1]
                 err == gs[g].ret[2]
                 out == ApplyThen(gs[g].fn, resp)
             IN IF err # Nil
                THEN gs' = [gs EXCEPT ![g].kind = "reject", ![g].val = err,
                                      ![g].pc = "once"]
                ELSE gs' = [gs EXCEPT ![g].calls = @ + 1, ![g].arg = resp,
                                      ![g].kind = "resolve", ![g].val = out[1],
                                      ![g].pc = "once"]
    /\ UNCHANGED <<promises, panicked>>

\* The goroutine started by Then: p.Wait(), then the branches that end in
\* newPromise.Reject(err), newPromise.Reject(newErr) or
\* newPromise.Resolve(newResp); the call itself is made by Resolve / Reject.
ThenGo(g) ==
    /\ gs[g].op = "Then"
    /\ \/ /\ gs[g].pc = "wait"
          /\ CanReceiveDone(gs[g].src)
          /\ gs' = [gs EXCEPT ![g].pc = "branch", ![g].ret = WaitReturn(gs[g].src)]
       \/ /\ gs[g].pc = "branch"
          /\ LET resp == gs[g].ret[1]
                 err == gs[g].ret[2]
                 out == ApplyThen(gs[g].fn, resp)
             IN IF err # Nil
                THEN gs' = [gs EXCEPT ![g].kind = "reject", ![g].val = err,
                                      ![g].pc = "once"]
                ELSE IF out[2] # Nil
                THEN gs' = [gs EXCEPT ![g].calls = @ + 1, ![g].arg = resp,
                                      ![g].kind = "reject", ![g].val = out[2],
                                      ![g].pc = "once"]
                ELSE gs' = [gs EXCEPT ![g].calls = @ + 1, ![g].arg = resp,
                                      ![g].kind = "resolve", ![g].val = out[1],
                                      ![g].pc = "once"]
    /\ UNCHANGED <<promises, panicked>>

\* Catch(fn), the caller's part.
Catch(p, fn) ==
    /\ NumOp({"Then", "Catch"}) < MaxChain
    /\ promises' = Append(promises, NewPromise)
    /\ gs' = Append(gs, Goroutine("Catch", Len(promises) + 1, p, fn, "none", Nil,
                                  "wait", <<>>))
    /\ UNCHANGED panicked

\* The goroutine of Catch with fn applied on both paths.
CatchGo_AlwaysFn(g) ==
    /\ gs[g].op = "Catch"
    /\ \/ /\ gs[g].pc = "wait"
          /\ CanReceiveDone(gs[g].src)
          /\ gs' = [gs EXCEPT ![g].pc = "branch", ![g].ret = WaitReturn(gs[g].src)]
       \/ /\ gs[g].pc = "branch"
          /\ gs' = [gs EXCEPT ![g].calls = @ + 1, ![g].arg = gs[g].ret[2],
                              ![g].kind = "reject",
                              ![g].val = ApplyCatch(gs[g].fn, gs[g].ret[2]),
                              ![g].pc = "once"]
    /\ UNCHANGED <<promises, panicked>>

\* The goroutine started by Catch: p.Wait(), then newPromise.Reject(fn(err))
\* or newPromise.Resolve(resp).
CatchGo(g) ==
    /\ gs[g].op = "Catch"
    /\ \/ /\ gs[g].pc = "wait"
          /\ CanReceiveDone(gs[g].src)
          /\ gs' = [gs EXCEPT ![g].pc = "branch", ![g].ret = WaitReturn(gs[g].src)]
       \/ /\ gs[g].pc = "branch"
          /\ LET resp == gs[g].ret[1]
                 err == gs[g].ret[2]
             IN IF err # Nil
                THEN gs' = [gs EXCEPT ![g].calls = @ + 1, ![g].arg = err,
                                      ![g].kind = "reject",
                                      ![g].val = ApplyCatch(gs[g].fn, err),
                                      ![g].pc = "once"]
                ELSE gs' = [gs EXCEPT ![g].kind = "resolve", ![g].val = resp,
                                      ![g].pc = "once"]
    /\ UNCHANGED <<promises, panicked>>

----------------------------------------------------------------------------
(* Programs using one Promise: goroutines that call Resolve, Reject and     *)
(* Wait on it concurrently.  A goroutine that has not taken its first step  *)
(* is one that has not made its call yet.                                   *)

CallKinds == <<"resolve", "resolveNil", "reject", "rejectNil", "wait">>
SettleKinds == {1, 2, 3, 4}

\* The goroutine number g making the call of kind k on promise p.
Call(k, g, p) ==
    CASE CallKinds[k] = "resolve" ->
            Goroutine("Resolve", p, 0, "none", "resolve", RespVal(g), "once", <<>>)
      [] CallKinds[k] = "resolveNil" ->
            Goroutine("Resolve", p, 0, "none", "resolve", Nil, "once", <<>>)
      [] CallKinds[k] = "reject" ->
            Goroutine("Reject", p, 0, "none", "reject", ErrVal(g), "once", <<>>)
      [] CallKinds[k] = "rejectNil" ->
            Goroutine("Reject", p, 0, "none", "reject", Nil, "once", <<>>)
      [] CallKinds[k] = "wait" ->
            Goroutine("Wait", p, 0, "none", "none", Nil, "wait", <<>>)

\* The programs: up to MaxSettle settling calls and MaxWait Wait calls,
\* listed by kind (the order of the list is not an order of execution).
Programs ==
    {s \in UNION {[1..n -> 1..Len(CallKinds)] : n \in 0..(MaxSettle + MaxWait)} :
        /\ \A a, b \in DOMAIN s : a < b => s[a] <= s[b]
        /\ Cardinality({a \in DOMAIN s : s[a] \in SettleKinds}) <= MaxSettle
        /\ Cardinality({a \in DOMAIN s : s[a] \notin SettleKinds}) <= MaxWait}

CInit ==
    /\ requests = <<>>
    /\ limited = FALSE
    /\ limit = 0
    /\ results = <<>>
    /\ writes = <<>>
    /\ sem = 0
    /\ wg = 0
    /\ mainpc = "idle"
    /\ loopi = 0
    /\ workers = <<>>
    /\ returned = <<>>

\* No logging handler and no backoff is in use, no Request call is followed.
OInit ==
    /\ lg = <<>>
    /\ bk = <<>>
    /\ rq = <<>>

\* No handler stack and no middleware is in use.
MInit ==
    /\ hs = [stack |-> <<>>, position |-> 0]
    /\ execs = <<>>
    /\ rt = <<>>
    /\ tm = <<>>
    /\ OInit

PInit ==
    /\ promises = <<>>
    /\ gs = <<>>
    /\ panicked = FALSE

InitPromise ==
    /\ promises = <<NewPromise>>
    /\ \E s \in Programs : gs = [g \in DOMAIN s |-> Call(s[g], g, 1)]
    /\ panicked = FALSE
    /\ CInit
    /\ MInit

\* A panic ends the process: no goroutine takes another step.
Running == ~panicked

NextPromise ==
    \/ \E g \in GIds : Running /\ Resolve(g) /\ UNCHANGED <<cvars, mvars>>
    \/ \E g \in GIds : Running /\ Reject(g) /\ UNCHANGED <<cvars, mvars>>
    \/ \E g \in GIds : Running /\ Wait(g) /\ UNCHANGED <<cvars, mvars>>

SpecPromise == InitPromise /\ [][NextPromise]_vars

----------------------------------------------------------------------------
(* Programs chaining promises: one promise made by NewPromise, settled by   *)
(* at most one call, and up to MaxChain Then / Catch calls made at any      *)
(* time on it or on the promises those calls returned.  The promises        *)
(* returned by Then / Catch are settled by their continuation only.         *)

InitChain ==
    /\ promises = <<NewPromise>>
    /\ \/ gs = <<>>
       \/ \E k \in SettleKinds : gs = <<Call(k, 1, 1)>>
    /\ panicked = FALSE
    /\ CInit
    /\ MInit

NextChain ==
    \/ \E p \in PIds : \E fn \in ThenFns : Running /\ Then(p, fn) /\ UNCHANGED <<cvars, mvars>>
    \/ \E p \in PIds : \E fn \in CatchFns : Running /\ Catch(p, fn) /\ UNCHANGED <<cvars, mvars>>
    \/ \E g \in GIds : Running /\ Resolve(g) /\ UNCHANGED <<cvars, mvars>>
    \/ \E g \in GIds : Running /\ Reject(g) /\ UNCHANGED <<cvars, mvars>>
    \/ \E g \in GIds : Running /\ ThenGo(g) /\ UNCHANGED <<cvars, mvars>>
    \/ \E g \in GIds : Running /\ CatchGo(g) /\ UNCHANGED <<cvars, mvars>>

SpecChain == InitChain /\ [][NextChain]_vars

----------------------------------------------------------------------------
(* Client.Request and AsyncClient.SendAsync *)

\* The methods http.NewRequest accepts (those the client's helpers send).
ValidMethods == {"GET", "POST", "PUT", "DELETE", "PATCH"}

\* The RequestOptions of the model: none (nil), a JSON payload that
\* marshals, one that json.Marshal rejects, and multipart data whose
\* encoding fails.
Options == {"nil", "json", "badJSON", "badMultipart"}

\* prepareBody(options): the error it returns (Nil when it returns a body).
prepareBody(path, options) ==
    CASE options = "badJSON"      -> <<"marshal error", path>>
      [] options = "badMultipart" -> <<"multipart error", path>>
      [] OTHER                    -> Nil

\* Request(method, path, options): the (response, error) pairs the call can
\* return.  Body preparation and request construction fail or not with the
\* arguments; httpClient.Do and io.ReadAll fail or not with the transport.
\* The values name the request they belong to.
Request(method, path, options) ==
    IF prepareBody(path, options) # Nil
    THEN {<<Nil, prepareBody(path, options)>>}
    ELSE IF method \notin ValidMethods
    THEN {<<Nil, <<"invalid method", method>>>>}
    ELSE {<<Nil, <<"transport error", method, path>>>>,
          <<Nil, <<"read error", method, path>>>>,
          <<<<"response", method, path>>, Nil>>}

\* The goroutine of SendAsync with the error path returning without a
\* Reject call.
SendAsyncGo_NoReject(g) ==
    /\ gs[g].op = "SendAsync"
    /\ gs[g].pc = "request"
    /\ \E out \in Request(gs[g].req[1], gs[g].req[2], gs[g].req[3]) :
          IF out[2] # Nil
          THEN gs' = [gs EXCEPT ![g].ret = out, ![g].pc = "done"]
          ELSE gs' = [gs EXCEPT ![g].ret = out, ![g].kind = "resolve",
                                ![g].val = out[1], ![g].pc = "once"]
    /\ UNCHANGED <<promises, panicked>>

\* The goroutine started by SendAsync: ac.Request returns, then
\* promise.Reject(err) or promise.Resolve(resp); the call itself is made by
\* Resolve / Reject.  A Request that does not return is this step not taken.
SendAsyncGo(g) ==
    /\ gs[g].op = "SendAsync"
    /\ gs[g].pc = "request"
    /\ \E out \in Request(gs[g].req[1], gs[g].req[2], gs[g].req[3]) :
          IF out[2] # Nil
          THEN gs' = [gs EXCEPT ![g].ret = out, ![g].kind = "reject",
                                ![g].val = out[2], ![g].pc = "once"]
          ELSE gs' = [gs EXCEPT ![g].ret = out, ![g].kind = "resolve",
                                ![g].val = out[1], ![g].pc = "once"]
    /\ UNCHANGED <<promises, panicked>>

\* SendAsync(method, path, options), the caller's part:
\* promise := NewPromise(); go func(){...}(); return promise.
SendAsync(method, path, options) ==
    /\ NumOp({"SendAsync"}) < MaxSend
    /\ promises' = Append(promises, NewPromise)
    /\ gs' = Append(gs, Goroutine("SendAsync", Len(promises) + 1, 0, "none", "none",
                                  Nil, "request", <<method, path, options>>))
    /\ UNCHANGED panicked

\* The requests the program under test sends.
AsyncInputs ==
    {<<"GET", "/a", "nil">>, <<"POST", "/b", "json">>, <<"POST", "/b", "badJSON">>,
     <<"BAD METHOD", "/a", "nil">>}

InitAsync ==
    /\ promises = <<>>
    /\ gs = <<>>
    /\ panicked = FALSE
    /\ CInit
    /\ MInit

NextAsync ==
    \/ \E r \in AsyncInputs : Running /\ SendAsync(r[1], r[2], r[3]) /\ UNCHANGED <<cvars, mvars>>
    \/ \E g \in GIds : Running /\ SendAsyncGo(g) /\ UNCHANGED <<cvars, mvars>>
    \/ \E g \in GIds : Running /\ Resolve(g) /\ UNCHANGED <<cvars, mvars>>
    \/ \E g \in GIds : Running /\ Reject(g) /\ UNCHANGED <<cvars, mvars>>

SpecAsync == InitAsync /\ [][NextAsync]_vars

\* The Go scheduler runs every runnable goroutine: a goroutine inside
\* Resolve or Reject takes its next step.  Nothing makes Request return.
SettleStep(g) == g \in GIds /\ Running /\ (Resolve(g) \/ Reject(g)) /\ UNCHANGED <<cvars, mvars>>

SpecAsyncFair == SpecAsync /\ \A g \in 1..(MaxSend + 1) : WF_vars(SettleStep(g))

----------------------------------------------------------------------------
(* AsyncClient.SendConcurrent and AsyncClient.SendConcurrentWithLimit.      *)
(* The two functions differ in the semaphore only: limited tells which of  *)
(* them runs, and the worker of SendConcurrent skips the two semaphore     *)
(* steps.  Slice indices are the code's (from 0); sequences start at 1.    *)

N == Len(requests)
WIds == 1..Len(workers)

\* The zero value of ConcurrentResponse.
ZeroResponse == [Index |-> 0, Response |-> Nil, Error |-> Nil]

\* results := make([]ConcurrentResponse, len(requests));
\* semaphore := make(chan struct{}, limit); var wg sync.WaitGroup
BulkBegin ==
    /\ mainpc = "start"
    /\ results' = [i \in 1..N |-> ZeroResponse]
    /\ sem' = 0
    /\ wg' = 0
    /\ loopi' = 0
    /\ mainpc' = IF N = 0 THEN "wait" ELSE "loop"
    /\ UNCHANGED <<requests, limited, limit, writes, workers, returned>>

\* One iteration of for i, req := range requests: wg.Add(1) and the go
\* statement, which hands i and the fields of req to the worker.
LoopSpawn ==
    /\ mainpc = "loop"
    /\ loopi < N
    /\ wg' = wg + 1
    /\ workers' = Append(workers,
                         [index |-> loopi, method |-> requests[loopi + 1][1],
                          path |-> requests[loopi + 1][2],
                          options |-> requests[loopi + 1][3],
                          pc |-> IF limited THEN "acquire" ELSE "request",
                          resp |-> Nil, err |-> Nil, wrote |-> <<>>])
    /\ loopi' = loopi + 1
    /\ mainpc' = IF loopi + 1 = N THEN "wait" ELSE "loop"
    /\ UNCHANGED <<requests, limited, limit, results, writes, sem, returned>>

\* The bulk call returning without wg.Wait().
WgWait_NoBarrier ==
    /\ mainpc = "wait"
    /\ returned' = results
    /\ mainpc' = "returned"
    /\ UNCHANGED <<requests, limited, limit, results, writes, sem, wg, loopi, workers>>

\* wg.Wait(); return results
WgWait ==
    /\ mainpc = "wait"
    /\ wg = 0
    /\ returned' = results
    /\ mainpc' = "returned"
    /\ UNCHANGED <<requests, limited, limit, results, writes, sem, wg, loopi, workers>>

\* The acquire as a send that never blocks (a gate that admits everyone).
WorkerAcquire_NoGate(w) ==
    /\ workers[w].pc = "acquire"
    /\ sem' = sem + 1
    /\ workers' = [workers EXCEPT ![w].pc = "request"]
    /\ UNCHANGED <<requests, limited, limit, results, writes, wg, mainpc, loopi, returned>>

\* The acquire on a channel that always has room for one token, whatever
\* the limit.
WorkerAcquire_RoomForOne(w) ==
    /\ workers[w].pc = "acquire"
    /\ sem < limit \/ sem = 0
    /\ sem' = sem + 1
    /\ workers' = [workers EXCEPT ![w].pc = "request"]
    /\ UNCHANGED <<requests, limited, limit, results, writes, wg, mainpc, loopi, returned>>

\* semaphore <- struct{}{}: blocks while the channel holds limit tokens.
WorkerAcquire(w) ==
    /\ workers[w].pc = "acquire"
    /\ sem < limit
    /\ sem' = sem + 1
    /\ workers' = [workers EXCEPT ![w].pc = "request"]
    /\ UNCHANGED <<requests, limited, limit, results, writes, wg, mainpc, loopi, returned>>

\* resp, err := ac.Request(method, path, options)
WorkerRequest(w) ==
    /\ workers[w].pc = "request"
    /\ \E out \in Request(workers[w].method, workers[w].path, workers[w].options) :
          workers' = [workers EXCEPT ![w].resp = out[1], ![w].err = out[2],
                                     ![w].pc = "write"]
    /\ UNCHANGED <<requests, limited, limit, results, writes, sem, wg, mainpc, loopi,
                   returned>>

\* The worker as a closure over the loop variable: results[i] = ... with the
\* i of the loop at the time of the write, not the worker's own index.
WorkerWrite_LoopVar(w) ==
    LET i == IF loopi >= N THEN N - 1 ELSE loopi IN
    /\ workers[w].pc = "write"
    /\ results' = [results EXCEPT ![i + 1] =
                      [Index |-> i, Response |-> workers[w].resp,
                       Error |-> workers[w].err]]
    /\ writes' = Append(writes, i)
    /\ workers' = [workers EXCEPT ![w].wrote = Append(@, i),
                                  ![w].pc = IF limited THEN "release" ELSE "wgdone"]
    /\ UNCHANGED <<requests, limited, limit, sem, wg, mainpc, loopi, returned>>

\* The worker returning early on an error, its slot left as it was.
WorkerWrite_SkipOnError(w) ==
    LET i == workers[w].index IN
    /\ workers[w].pc = "write"
    /\ IF workers[w].err # Nil
       THEN /\ workers' = [workers EXCEPT ![w].pc = IF limited THEN "release" ELSE "wgdone"]
            /\ UNCHANGED <<results, writes>>
       ELSE /\ results' = [results EXCEPT ![i + 1] =
                              [Index |-> i, Response |-> workers[w].resp,
                               Error |-> workers[w].err]]
            /\ writes' = Append(writes, i)
            /\ workers' = [workers EXCEPT ![w].wrote = Append(@, i),
                                          ![w].pc = IF limited THEN "release" ELSE "wgdone"]
    /\ UNCHANGED <<requests, limited, limit, sem, wg, mainpc, loopi, returned>>

\* results[index] = ConcurrentResponse{Index: index, Response: resp, Error: err}
WorkerWrite(w) ==
    LET i == workers[w].index IN
    /\ workers[w].pc = "write"
    /\ results' = [results EXCEPT ![i + 1] =
                      [Index |-> i, Response |-> workers[w].resp,
                       Error |-> workers[w].err]]
    /\ writes' = Append(writes, i)
    /\ workers' = [workers EXCEPT ![w].wrote = Append(@, i),
                                  ![w].pc = IF limited THEN "release" ELSE "wgdone"]
    /\ UNCHANGED <<requests, limited, limit, sem, wg, mainpc, loopi, returned>>

\* The release written after the request instead of deferred, on the
\* success path only: a worker whose Request failed keeps its token.
WorkerRelease_OnSuccessOnly(w) ==
    /\ workers[w].pc = "release"
    /\ IF workers[w].err # Nil
       THEN sem' = sem
       ELSE sem > 0 /\ sem' = sem - 1
    /\ workers' = [workers EXCEPT ![w].pc = "wgdone"]
    /\ UNCHANGED <<requests, limited, limit, results, writes, wg, mainpc, loopi, returned>>

\* The worker without the deferred receive: no token is ever given back.
WorkerRelease_NeverFrees(w) ==
    /\ workers[w].pc = "release"
    /\ workers' = [workers EXCEPT ![w].pc = "wgdone"]
    /\ UNCHANGED <<requests, limited, limit, results, writes, sem, wg, mainpc, loopi,
                   returned>>

\* The deferred func() { <-semaphore }()
WorkerRelease(w) ==
    /\ workers[w].pc = "release"
    /\ sem > 0
    /\ sem' = sem - 1
    /\ workers' = [workers EXCEPT ![w].pc = "wgdone"]
    /\ UNCHANGED <<requests, limited, limit, results, writes, wg, mainpc, loopi, returned>>

\* The deferred wg.Done(), the worker's last statement.
WorkerDone(w) ==
    /\ workers[w].pc = "wgdone"
    /\ wg' = wg - 1
    /\ workers' = [workers EXCEPT ![w].pc = "done"]
    /\ UNCHANGED <<requests, limited, limit, results, writes, sem, mainpc, loopi, returned>>

\* The requests of a bulk call.
ConcInputs == {<<"GET", "/a", "nil">>, <<"GET", "/b", "nil">>, <<"POST", "/b", "badJSON">>}

InitConcurrent ==
    /\ promises = <<>>
    /\ gs = <<>>
    /\ panicked = FALSE
    /\ requests \in UNION {[1..n -> ConcInputs] : n \in 0..MaxN}
    /\ limited \in BOOLEAN
    /\ limit \in IF limited THEN 0..MaxLimit ELSE {0}
    /\ results = <<>>
    /\ writes = <<>>
    /\ sem = 0
    /\ wg = 0
    /\ mainpc = "start"
    /\ loopi = 0
    /\ workers = <<>>
    /\ returned = <<>>
    /\ MInit

NextConcurrent ==
    \/ BulkBegin /\ UNCHANGED <<pvars, mvars>>
    \/ LoopSpawn /\ UNCHANGED <<pvars, mvars>>
    \/ WgWait /\ UNCHANGED <<pvars, mvars>>
    \/ \E w \in WIds : WorkerAcquire(w) /\ UNCHANGED <<pvars, mvars>>
    \/ \E w \in WIds : WorkerRequest(w) /\ UNCHANGED <<pvars, mvars>>
    \/ \E w \in WIds : WorkerWrite(w) /\ UNCHANGED <<pvars, mvars>>
    \/ \E w \in WIds : WorkerRelease(w) /\ UNCHANGED <<pvars, mvars>>
    \/ \E w \in WIds : WorkerDone(w) /\ UNCHANGED <<pvars, mvars>>

SpecConcurrent == InitConcurrent /\ [][NextConcurrent]_vars

\* The Go scheduler runs every runnable goroutine, the caller of the bulk
\* call and each worker; a worker's step out of "request" is its Request
\* call returning.
MainStep == (BulkBegin \/ LoopSpawn \/ WgWait) /\ UNCHANGED <<pvars, mvars>>

WorkerStep(w) ==
    /\ w \in WIds
    /\ \/ WorkerAcquire(w)
       \/ WorkerRequest(w)
       \/ WorkerWrite(w)
       \/ WorkerRelease(w)
       \/ WorkerDone(w)
    /\ UNCHANGED <<pvars, mvars>>

SpecConcurrentFair ==
    /\ SpecConcurrent
    /\ WF_vars(MainStep)
    /\ \A w \in 1..MaxN : WF_vars(WorkerStep(w))

----------------------------------------------------------------------------
(* HandlerStack, src/middleware.go lines 17-52.  The stack is one object   *)
(* with one position field; an execution is a call of hs.Next by a caller, *)
(* and the middleware it reaches calls hs.Next again as its next handler.  *)
(* Each read and each write of hs.position is one step, so that            *)
(* executions running at the same time interleave as unsynchronised Go     *)
(* code does.                                                              *)

\* The middlewares a caller pushes, in the order of the Push calls.
MwNames == <<"A", "B", "C", "D">>

\* The terminal handler hs.handler.
Terminal == "T"

NewHandlerStack == [stack |-> <<>>, position |-> 0]

\* An execution: where it is in Next, the middlewares it is inside of
\* (outermost first), the locals of Next, the calls it made so far, the
\* position it found when it was started and whether it ran by itself.
NewExec(alone) ==
    [pc |-> "check", frames |-> <<>>, middleware |-> "", tmp |-> 0,
     trace |-> <<>>, start |-> hs.position, alone |-> alone]

EIds == DOMAIN execs

Active(e) == execs[e].pc \notin {"done", "panic"}

\* An index out of range panic ends the process.
StackRunning == \A e \in EIds : execs[e].pc # "panic"

\* Push that puts the middleware in front of the slice.
Push_Front(m) ==
    /\ StackRunning
    /\ execs = <<>>
    /\ Len(hs.stack) < MaxStack
    /\ m = MwNames[Len(hs.stack) + 1]
    /\ hs' = [hs EXCEPT !.stack = <<m>> \o @]
    /\ UNCHANGED execs

\* hs.stack = append(hs.stack, middleware); the caller configures the
\* stack before it executes anything.
Push(m) ==
    /\ StackRunning
    /\ execs = <<>>
    /\ Len(hs.stack) < MaxStack
    /\ m = MwNames[Len(hs.stack) + 1]
    /\ hs' = [hs EXCEPT !.stack = Append(@, m)]
    /\ UNCHANGED execs

\* hs.position = 0, called between executions.
Reset ==
    /\ StackRunning
    /\ \A e \in EIds : ~Active(e)
    /\ hs.position # 0
    /\ hs' = [hs EXCEPT !.position = 0]
    /\ UNCHANGED execs

\* A caller calls hs.Next(req), by itself or while other executions run.
StartExec ==
    /\ StackRunning
    /\ Len(execs) < MaxExec
    /\ LET others == \E e \in EIds : Active(e) IN
       execs' = Append([e \in EIds |->
                           IF Active(e) THEN [execs[e] EXCEPT !.alone = FALSE]
                           ELSE execs[e]],
                       NewExec(~others))
    /\ UNCHANGED hs

\* if hs.position >= len(hs.stack) { return hs.handler(req) }
NextCheck(e) ==
    /\ StackRunning
    /\ execs[e].pc = "check"
    /\ execs' = [execs EXCEPT ![e].pc =
                    IF hs.position >= Len(hs.stack) THEN "handler" ELSE "fetch"]
    /\ UNCHANGED hs

\* middleware := hs.stack[hs.position]
NextFetch(e) ==
    /\ StackRunning
    /\ execs[e].pc = "fetch"
    /\ IF hs.position >= Len(hs.stack)
       THEN execs' = [execs EXCEPT ![e].pc = "panic"]
       ELSE execs' = [execs EXCEPT ![e].middleware = hs.stack[hs.position + 1],
                                   ![e].pc = "incload"]
    /\ UNCHANGED hs

\* hs.position++, the read
NextIncLoad(e) ==
    /\ StackRunning
    /\ execs[e].pc = "incload"
    /\ execs' = [execs EXCEPT ![e].tmp = hs.position, ![e].pc = "incstore"]
    /\ UNCHANGED hs

\* hs.position++, the write
NextIncStore(e) ==
    /\ StackRunning
    /\ execs[e].pc = "incstore"
    /\ hs' = [hs EXCEPT !.position = execs[e].tmp + 1]
    /\ execs' = [execs EXCEPT ![e].pc = "enter"]

\* return middleware(hs.Next)(req): the middleware runs up to its call of
\* next, which is hs.Next.
MiddlewareBefore(e) ==
    /\ StackRunning
    /\ execs[e].pc = "enter"
    /\ execs' = [execs EXCEPT
                    ![e].trace = Append(@, <<execs[e].middleware, "before">>),
                    ![e].frames = Append(@, execs[e].middleware),
                    ![e].pc = "check"]
    /\ UNCHANGED hs

\* return hs.handler(req): the terminal handler runs and returns.
TerminalHandler(e) ==
    /\ StackRunning
    /\ execs[e].pc = "handler"
    /\ execs' = [execs EXCEPT
                    ![e].trace = Append(@, <<Terminal, "call">>),
                    ![e].pc = IF execs[e].frames = <<>> THEN "done" ELSE "return"]
    /\ UNCHANGED hs

\* next returned to the innermost middleware entered, which runs its part
\* after the call and returns what it got.
MiddlewareAfter(e) ==
    /\ StackRunning
    /\ execs[e].pc = "return"
    /\ LET f == execs[e].frames
           n == Len(f) IN
       execs' = [execs EXCEPT
                    ![e].trace = Append(@, <<f[n], "after">>),
                    ![e].frames = SubSeq(f, 1, n - 1),
                    ![e].pc = IF n = 1 THEN "done" ELSE "return"]
    /\ UNCHANGED hs

InitStack ==
    /\ PInit
    /\ CInit
    /\ OInit
    /\ hs = NewHandlerStack
    /\ execs = <<>>
    /\ rt = <<>>
    /\ tm = <<>>

\* One caller: it starts an execution when the one before has returned.
StartNext == (\A e \in EIds : ~Active(e)) /\ StartExec

NextStack ==
    \/ \E m \in {MwNames[i] : i \in 1..MaxStack} :
          Push(m) /\ UNCHANGED <<pvars, cvars, rt, tm, ovars>>
    \/ Reset /\ UNCHANGED <<pvars, cvars, rt, tm, ovars>>
    \/ StartNext /\ UNCHANGED <<pvars, cvars, rt, tm, ovars>>
    \/ \E e \in EIds : NextCheck(e) /\ UNCHANGED <<pvars, cvars, rt, tm, ovars>>
    \/ \E e \in EIds : NextFetch(e) /\ UNCHANGED <<pvars, cvars, rt, tm, ovars>>
    \/ \E e \in EIds : NextIncLoad(e) /\ UNCHANGED <<pvars, cvars, rt, tm, ovars>>
    \/ \E e \in EIds : NextIncStore(e) /\ UNCHANGED <<pvars, cvars, rt, tm, ovars>>
    \/ \E e \in EIds : MiddlewareBefore(e) /\ UNCHANGED <<pvars, cvars, rt, tm, ovars>>
    \/ \E e \in EIds : TerminalHandler(e) /\ UNCHANGED <<pvars, cvars, rt, tm, ovars>>
    \/ \E e \in EIds : MiddlewareAfter(e) /\ UNCHANGED <<pvars, cvars, rt, tm, ovars>>

SpecStack == InitStack /\ [][NextStack]_vars

\* Several callers sharing the stack: an execution is started whatever the
\* others are doing.
NextStackShared ==
    \/ \E m \in {MwNames[i] : i \in 1..MaxStack} :
          Push(m) /\ UNCHANGED <<pvars, cvars, rt, tm, ovars>>
    \/ Reset /\ UNCHANGED <<pvars, cvars, rt, tm, ovars>>
    \/ StartExec /\ UNCHANGED <<pvars, cvars, rt, tm, ovars>>
    \/ \E e \in EIds : NextCheck(e) /\ UNCHANGED <<pvars, cvars, rt, tm, ovars>>
    \/ \E e \in EIds : NextFetch(e) /\ UNCHANGED <<pvars, cvars, rt, tm, ovars>>
    \/ \E e \in EIds : NextIncLoad(e) /\ UNCHANGED <<pvars, cvars, rt, tm, ovars>>
    \/ \E e \in EIds : NextIncStore(e) /\ UNCHANGED <<pvars, cvars, rt, tm, ovars>>
    \/ \E e \in EIds : MiddlewareBefore(e) /\ UNCHANGED <<pvars, cvars, rt, tm, ovars>>
    \/ \E e \in EIds : TerminalHandler(e) /\ UNCHANGED <<pvars, cvars, rt, tm, ovars>>
    \/ \E e \in EIds : MiddlewareAfter(e) /\ UNCHANGED <<pvars, cvars, rt, tm, ovars>>

SpecStackShared == InitStack /\ [][NextStackShared]_vars

----------------------------------------------------------------------------
(* RetryMiddleware, src/middleware.go lines 75-101, called with a request  *)
(* whose context another goroutine may cancel, over a next handler that    *)
(* fails or succeeds, and ExponentialBackoff, lines 134-145.               *)

\* req.Context().Err() of a cancelled context.
CtxErr == <<"err", "context canceled">>

\* time.Duration is a signed integer of 64 bits; the model keeps the
\* arithmetic of a signed word and scales its width to DurBits.
Word == 2 ^ DurBits

\* The value a signed word holds after an operation whose exact result is x.
Wrap(x) ==
    LET m == x % Word IN
    IF m >= Word \div 2 THEN m - Word ELSE m

\* time.Duration(1<<attempt) for attempt >= 0: a shift by the width or more
\* leaves 0, a shift by one less leaves the smallest negative value.
Shl(attempt) == IF attempt >= DurBits THEN 0 ELSE Wrap(2 ^ attempt)

\* ExponentialBackoff.Delay, for attempt >= 0.
Delay(eb, attempt) ==
    LET delay == Wrap(eb.BaseDelay * Shl(attempt)) IN
    IF delay > eb.MaxDelay THEN eb.MaxDelay ELSE delay

Backoffs == {[BaseDelay |-> b, MaxDelay |-> m] : b \in 0..MaxBase, m \in 0..(2 * MaxBase)}

\* The handler built by RetryMiddleware(maxRetries, backoff)(next), called
\* once: the loop variable attempt, lastErr, the calls of next made and what
\* each returned, the attempts given to backoff.Delay, the pending timer of
\* time.After, the request context, and bookkeeping: where the handler was
\* when the context was cancelled (cancelAt) and how many calls of next it
\* had made when a failed attempt with retries remaining returned under a
\* cancelled context (abortAt, 0 when that did not happen).
NewRetry(maxRetries, backoff) ==
    [pc |-> "loop", maxRetries |-> maxRetries, backoff |-> backoff,
     attempt |-> 0, lastErr |-> Nil, calls |-> 0, outs |-> <<>>,
     consulted |-> <<>>, delay |-> 0, timerReady |-> FALSE,
     cancelled |-> FALSE, cancelAt |-> "", abortAt |-> 0,
     result |-> <<Nil, Nil>>]

\* The loop condition with the bound excluded.
MoreAttempts_Exclusive(attempt, maxRetries) == attempt < maxRetries

\* The loop as one that tests its condition after the body: a first attempt
\* is made whatever maxRetries is.
MoreAttempts_AtLeastOnce(attempt, maxRetries) ==
    attempt = 0 \/ attempt <= maxRetries

\* for attempt := 0; attempt <= maxRetries; attempt++
MoreAttempts(attempt, maxRetries) == attempt <= maxRetries

\* An attempt that succeeds after failures and hands the caller the error
\* of the failure before it along with the response.
RetryAttempt_KeepsLastErr ==
    /\ rt.pc = "loop"
    /\ MoreAttempts(rt.attempt, rt.maxRetries)
    /\ LET n == rt.calls + 1 IN
       \/ rt' = [rt EXCEPT !.calls = n, !.outs = Append(@, "ok"),
                           !.result = <<RespVal(n), rt.lastErr>>, !.pc = "done"]
       \/ /\ rt.attempt < rt.maxRetries
          /\ rt' = [rt EXCEPT !.calls = n, !.outs = Append(@, "fail"),
                              !.lastErr = ErrVal(n),
                              !.consulted = Append(@, rt.attempt),
                              !.delay = Delay(rt.backoff, rt.attempt),
                              !.timerReady = FALSE,
                              !.abortAt = IF rt.cancelled /\ @ = 0 THEN n ELSE @,
                              !.pc = "select"]
       \/ /\ ~(rt.attempt < rt.maxRetries)
          /\ rt' = [rt EXCEPT !.calls = n, !.outs = Append(@, "fail"),
                              !.lastErr = ErrVal(n),
                              !.attempt = @ + 1, !.pc = "loop"]

\* resp, err := next(req); if err == nil { return resp, nil }; lastErr = err;
\* if attempt < maxRetries { delay := backoff.Delay(attempt); the select is
\* reached with the timer of time.After(delay) started }
RetryAttempt ==
    /\ rt.pc = "loop"
    /\ MoreAttempts(rt.attempt, rt.maxRetries)
    /\ LET n == rt.calls + 1 IN
       \/ rt' = [rt EXCEPT !.calls = n, !.outs = Append(@, "ok"),
                           !.result = <<RespVal(n), Nil>>, !.pc = "done"]
       \/ /\ rt.attempt < rt.maxRetries
          /\ rt' = [rt EXCEPT !.calls = n, !.outs = Append(@, "fail"),
                              !.lastErr = ErrVal(n),
                              !.consulted = Append(@, rt.attempt),
                              !.delay = Delay(rt.backoff, rt.attempt),
                              !.timerReady = FALSE,
                              !.abortAt = IF rt.cancelled /\ @ = 0 THEN n ELSE @,
                              !.pc = "select"]
       \/ /\ ~(rt.attempt < rt.maxRetries)
          /\ rt' = [rt EXCEPT !.calls = n, !.outs = Append(@, "fail"),
                              !.lastErr = ErrVal(n),
                              !.attempt = @ + 1, !.pc = "loop"]

\* return nil, lastErr
RetryExhausted ==
    /\ rt.pc = "loop"
    /\ ~MoreAttempts(rt.attempt, rt.maxRetries)
    /\ rt' = [rt EXCEPT !.result = <<Nil, rt.lastErr>>, !.pc = "done"]

\* select { case <-req.Context().Done(): return nil, req.Context().Err()
\*          case <-time.After(delay): continue }
\* reached: with no case ready the goroutine blocks, with one ready it is
\* taken, with both ready Go takes either.
RetrySelect ==
    /\ rt.pc = "select"
    /\ \/ /\ ~rt.cancelled /\ ~rt.timerReady
          /\ rt' = [rt EXCEPT !.pc = "blocked"]
       \/ /\ rt.cancelled
          /\ rt' = [rt EXCEPT !.result = <<Nil, CtxErr>>, !.pc = "done"]
       \/ /\ rt.timerReady
          /\ rt' = [rt EXCEPT !.attempt = @ + 1, !.pc = "loop"]

\* A cancellation the blocked select does not listen to.
CtxCancel_Unheard ==
    /\ rt.pc # "done"
    /\ ~rt.cancelled
    /\ rt' = [rt EXCEPT !.cancelled = TRUE, !.cancelAt = rt.pc]

\* Another goroutine cancels the request context; a handler blocked in the
\* select is woken by the Done case.
CtxCancel ==
    /\ rt.pc # "done"
    /\ ~rt.cancelled
    /\ IF rt.pc = "blocked"
       THEN rt' = [rt EXCEPT !.cancelled = TRUE, !.cancelAt = rt.pc,
                             !.result = <<Nil, CtxErr>>, !.pc = "done"]
       ELSE rt' = [rt EXCEPT !.cancelled = TRUE, !.cancelAt = rt.pc]

\* The timer of time.After(delay) delivers: a handler blocked in the select
\* is woken by the timer case; a timer of zero delay may have delivered by
\* the time the select looks at its cases.
TimerFire ==
    \/ /\ rt.pc = "blocked"
       /\ rt' = [rt EXCEPT !.timerReady = TRUE, !.attempt = @ + 1, !.pc = "loop"]
    \/ /\ rt.pc = "select"
       /\ rt.delay <= 0
       /\ ~rt.timerReady
       /\ rt' = [rt EXCEPT !.timerReady = TRUE]

InitRetry ==
    /\ PInit
    /\ CInit
    /\ OInit
    /\ hs = NewHandlerStack
    /\ execs = <<>>
    /\ tm = <<>>
    /\ \E n \in (-1)..MaxRetries : \E b \in Backoffs : rt = NewRetry(n, b)

NextRetry ==
    \/ RetryAttempt /\ UNCHANGED <<pvars, cvars, hs, execs, tm, ovars>>
    \/ RetryExhausted /\ UNCHANGED <<pvars, cvars, hs, execs, tm, ovars>>
    \/ RetrySelect /\ UNCHANGED <<pvars, cvars, hs, execs, tm, ovars>>
    \/ CtxCancel /\ UNCHANGED <<pvars, cvars, hs, execs, tm, ovars>>
    \/ TimerFire /\ UNCHANGED <<pvars, cvars, hs, execs, tm, ovars>>

SpecRetry == InitRetry /\ [][NextRetry]_vars

----------------------------------------------------------------------------
(* TimeoutMiddleware, src/middleware.go lines 104-114.  Each call of the   *)
(* handler it builds makes one child context of the context of the request *)
(* it was given; the callers' contexts are distinct and may be cancelled.  *)

\* ctx.Err() of a context whose deadline passed.
DeadlineErr == <<"err", "context deadline exceeded">>

\* The context of the request the c-th caller passes in.
CallerCtx(c) == <<"ctx", ValNames[c]>>

\* What context.WithTimeout(parent, timeout) returns: a context that knows
\* its parent and its duration, not done, its resources held until cancel
\* is called; cancels counts the calls of its cancel function.
WithTimeout(parent, timeout) ==
    [parent |-> parent, timeout |-> timeout, err |-> Nil, held |-> TRUE,
     cancels |-> 0]

NoCtx == [parent |-> Nil, timeout |-> 0, err |-> Nil, held |-> FALSE, cancels |-> 0]

TIds == DOMAIN tm

Exited(c) == tm[c].pc \in {"done", "panicked"}

\* A caller calls the handler of TimeoutMiddleware(timeout)(next) with a
\* request carrying its context.  The calls share nothing, each has its own
\* request and its own child context; they are made one after another.
TimeoutCall(timeout) ==
    /\ Len(tm) < MaxCalls
    /\ \A c \in TIds : Exited(c)
    /\ tm' = Append(tm, [pc |-> "start", timeout |-> timeout,
                         reqCtx |-> CallerCtx(Len(tm) + 1),
                         parentCancelled |-> FALSE,
                         child |-> NoCtx, nextCtx |-> Nil, deferred |-> <<>>,
                         expiredIn |-> "", out |-> "", result |-> <<Nil, Nil>>])

\* ctx, cancel := context.WithTimeout(req.Context(), timeout); defer cancel();
\* req = req.WithContext(ctx)
TimeoutDerive(c) ==
    /\ tm[c].pc = "start"
    /\ LET ctx == WithTimeout(tm[c].reqCtx, tm[c].timeout) IN
       tm' = [tm EXCEPT ![c].child =
                            IF tm[c].parentCancelled
                            THEN [ctx EXCEPT !.err = CtxErr] ELSE ctx,
                        ![c].deferred = <<"cancel">>,
                        ![c].reqCtx = <<"child", tm[c].reqCtx>>,
                        ![c].pc = "call"]

\* return next(req), the call: next receives the request as it is now.
TimeoutNextCalled(c) ==
    /\ tm[c].pc = "call"
    /\ tm' = [tm EXCEPT ![c].nextCtx = tm[c].reqCtx, ![c].pc = "next"]

\* return next(req), the return: next hands back a response or an error of
\* its own, or panics; a next that watches the context of its request can
\* hand back the error of that context once it is done.  The middleware
\* returns what next returned.
TimeoutNextReturns(c) ==
    /\ tm[c].pc = "next"
    /\ \E out \in {"resp", "err", "panic", "ctxerr"} :
          /\ out = "ctxerr" => tm[c].child.err # Nil
          /\ tm' = [tm EXCEPT ![c].out = out,
                              ![c].result = CASE out = "resp" -> <<RespVal(c), Nil>>
                                              [] out = "err" -> <<Nil, ErrVal(c)>>
                                              [] out = "ctxerr" -> <<Nil, tm[c].child.err>>
                                              [] OTHER -> <<Nil, Nil>>,
                              ![c].pc = "exit"]

\* cancel() written after the call of next on the path without error, not
\* deferred.
TimeoutExit_CancelOnSuccess(c) ==
    /\ tm[c].pc = "exit"
    /\ tm' = [tm EXCEPT
                 ![c].child = IF tm[c].out = "resp"
                              THEN [@ EXCEPT !.cancels = @ + 1, !.held = FALSE,
                                             !.err = IF @ = Nil THEN CtxErr ELSE @]
                              ELSE @,
                 ![c].deferred = <<>>,
                 ![c].pc = IF tm[c].out = "panic" THEN "panicked" ELSE "done"]

\* The function exits, by return or by panic: the deferred cancel() runs,
\* releasing the child context and marking it cancelled unless it was done.
TimeoutExit(c) ==
    /\ tm[c].pc = "exit"
    /\ tm[c].deferred = <<"cancel">>
    /\ tm' = [tm EXCEPT
                 ![c].child = [@ EXCEPT !.cancels = @ + 1, !.held = FALSE,
                                        !.err = IF @ = Nil THEN CtxErr ELSE @],
                 ![c].deferred = <<>>,
                 ![c].pc = IF tm[c].out = "panic" THEN "panicked" ELSE "done"]

\* The timer of the child context fires after its duration: the context is
\* done with the deadline error; its resources stay held until cancel.
\* expiredIn keeps where the handler was at that moment.
TimeoutExpire(c) ==
    /\ tm[c].pc \in {"call", "next", "exit"}
    /\ tm[c].child.err = Nil
    /\ tm' = [tm EXCEPT ![c].child.err = DeadlineErr, ![c].expiredIn = tm[c].pc]

\* The caller's context is cancelled: a child derived from it is done too.
TimeoutParentCancel(c) ==
    /\ tm[c].pc \in {"start", "call", "next", "exit"}
    /\ ~tm[c].parentCancelled
    /\ tm' = [tm EXCEPT ![c].parentCancelled = TRUE,
                        ![c].child.err = IF tm[c].pc # "start" /\ @ = Nil
                                         THEN CtxErr ELSE @]

InitTimeout ==
    /\ PInit
    /\ CInit
    /\ OInit
    /\ hs = NewHandlerStack
    /\ execs = <<>>
    /\ rt = <<>>
    /\ tm = <<>>

NextTimeout ==
    \/ \E d \in 0..MaxTimeout : TimeoutCall(d) /\ UNCHANGED <<pvars, cvars, hs, execs, rt, ovars>>
    \/ \E c \in TIds : TimeoutDerive(c) /\ UNCHANGED <<pvars, cvars, hs, execs, rt, ovars>>
    \/ \E c \in TIds : TimeoutNextCalled(c) /\ UNCHANGED <<pvars, cvars, hs, execs, rt, ovars>>
    \/ \E c \in TIds : TimeoutNextReturns(c) /\ UNCHANGED <<pvars, cvars, hs, execs, rt, ovars>>
    \/ \E c \in TIds : TimeoutExit(c) /\ UNCHANGED <<pvars, cvars, hs, execs, rt, ovars>>
    \/ \E c \in TIds : TimeoutExpire(c) /\ UNCHANGED <<pvars, cvars, hs, execs, rt, ovars>>
    \/ \E c \in TIds : TimeoutParentCancel(c) /\ UNCHANGED <<pvars, cvars, hs, execs, rt, ovars>>

SpecTimeout == InitTimeout /\ [][NextTimeout]_vars

----------------------------------------------------------------------------
(* LoggingMiddleware, src/middleware.go lines 57-72, over a next handler   *)
(* that returns a response, an error, both or neither.  The logger keeps   *)
(* the lines it is given.                                                  *)

\* The requests given to the handler: method and URL.
LogRequests == {<<"GET", "/a">>, <<"POST", "/b">>}

\* What next can return.  A *Response carries the status code of the
\* embedded *http.Response.
NextOutcomes ==
    {<<<<"response", "200">>, Nil>>, <<<<"response", "500">>, Nil>>,
     <<Nil, <<"err", "refused">>>>,
     <<<<"response", "502">>, <<"err", "bad gateway">>>>,
     <<Nil, Nil>>}

LIds == DOMAIN lg

LogExited(c) == lg[c].pc \in {"done", "panicked"}

\* A caller calls the handler of LoggingMiddleware(logger)(next); the calls
\* are made one after another.
LoggingCall(req) ==
    /\ Len(lg) < MaxLogged
    /\ \A c \in LIds : LogExited(c)
    /\ lg' = Append(lg, [pc |-> "start", req |-> req, log |-> <<>>,
                         nextReqs |-> <<>>, out |-> <<Nil, Nil>>,
                         result |-> <<Nil, Nil>>])

\* logger.Logf("Request: %s %s", req.Method, req.URL.String())
LogRequestLine(c) ==
    /\ lg[c].pc = "start"
    /\ lg' = [lg EXCEPT ![c].log = Append(@, <<"Request", lg[c].req[1], lg[c].req[2]>>),
                        ![c].pc = "call"]

\* resp, err := next(req)
LogNext(c) ==
    /\ lg[c].pc = "call"
    /\ \E out \in NextOutcomes :
          lg' = [lg EXCEPT ![c].nextReqs = Append(@, lg[c].req),
                           ![c].out = out,
                           ![c].pc = "after"]

\* The error branch logging the error and returning no error.
LogAfter_Swallow(c) ==
    /\ lg[c].pc = "after"
    /\ LET resp == lg[c].out[1]
           err == lg[c].out[2] IN
       IF err # Nil
       THEN lg' = [lg EXCEPT ![c].log = Append(@, <<"Error", err>>),
                             ![c].result = <<Nil, Nil>>, ![c].pc = "done"]
       ELSE IF resp = Nil
       THEN lg' = [lg EXCEPT ![c].pc = "panicked"]
       ELSE lg' = [lg EXCEPT ![c].log = Append(@, <<"Response", resp[2]>>),
                             ![c].result = <<resp, Nil>>, ![c].pc = "done"]

\* if err != nil { logger.Logf("Error: %v", err); return nil, err }
\* logger.Logf("Response: %d", resp.StatusCode); return resp, nil
\* With a nil resp and a nil err, resp.StatusCode is a nil pointer
\* dereference: the call panics.
LogAfter(c) ==
    /\ lg[c].pc = "after"
    /\ LET resp == lg[c].out[1]
           err == lg[c].out[2] IN
       IF err # Nil
       THEN lg' = [lg EXCEPT ![c].log = Append(@, <<"Error", err>>),
                             ![c].result = <<Nil, err>>, ![c].pc = "done"]
       ELSE IF resp = Nil
       THEN lg' = [lg EXCEPT ![c].pc = "panicked"]
       ELSE lg' = [lg EXCEPT ![c].log = Append(@, <<"Response", resp[2]>>),
                             ![c].result = <<resp, Nil>>, ![c].pc = "done"]

InitLogging ==
    /\ PInit
    /\ CInit
    /\ hs = NewHandlerStack
    /\ execs = <<>>
    /\ rt = <<>>
    /\ tm = <<>>
    /\ lg = <<>>
    /\ bk = <<>>
    /\ rq = <<>>

NextLogging ==
    \/ \E req \in LogRequests :
          LoggingCall(req) /\ UNCHANGED <<pvars, cvars, hs, execs, rt, tm, bk, rq>>
    \/ \E c \in LIds : LogRequestLine(c) /\ UNCHANGED <<pvars, cvars, hs, execs, rt, tm, bk, rq>>
    \/ \E c \in LIds : LogNext(c) /\ UNCHANGED <<pvars, cvars, hs, execs, rt, tm, bk, rq>>
    \/ \E c \in LIds : LogAfter(c) /\ UNCHANGED <<pvars, cvars, hs, execs, rt, tm, bk, rq>>

SpecLogging == InitLogging /\ [][NextLogging]_vars

----------------------------------------------------------------------------
(* Client.Request step by step, src/unnamed/part_000 lines 329-384, with   *)
(* the client built by NewClient and WithTimeout, lines 279-310.  The      *)
(* program also holds a HandlerStack with middlewares pushed.  Durations   *)
(* are in seconds.                                                         *)

\* Timeout: 30 * time.Second of the http.Client made by NewClient.
DefaultTimeout == 30

\* NewClient(): the timeout field is zero, the http.Client has the default.
NewClient == [timeout |-> 0, httpTimeout |-> DefaultTimeout]

\* NewClient(WithTimeout(d)): both fields are set to d.
WithClientTimeout(d) == [timeout |-> d, httpTimeout |-> d]

Clients == {NewClient} \cup {WithClientTimeout(d) : d \in 0..MaxDur}

\* The times after which the transport answers: at once, soon, or later
\* than the default timeout.
Latencies == (0..MaxLatency) \cup {DefaultTimeout + 1}

\* The error of httpClient.Do when http.Client.Timeout passes.
TimeoutErr(method, path) == <<"timeout error", method, path>>

\* A call c.Request(method, path, options): options is one of Options and,
\* unless nil, carries RequestOptions.Timeout; steps keeps the calls made.
RequestCall(client, method, path, options, timeout) ==
    [pc |-> "prepare", client |-> client, method |-> method, path |-> path,
     options |-> options, optTimeout |-> timeout, steps |-> <<>>,
     latency |-> 0, resp |-> Nil, err |-> Nil]

\* The body preparation whose error is dropped.
ReqPrepareBody_IgnoreError ==
    /\ rq.pc = "prepare"
    /\ rq' = [rq EXCEPT !.steps = Append(@, "prepareBody"), !.pc = "newrequest"]

\* body, contentType, err := c.prepareBody(options);
\* if err != nil { return nil, err }
ReqPrepareBody ==
    /\ rq.pc = "prepare"
    /\ LET err == prepareBody(rq.path, rq.options) IN
       IF err # Nil
       THEN rq' = [rq EXCEPT !.steps = Append(@, "prepareBody"),
                             !.err = err, !.pc = "done"]
       ELSE rq' = [rq EXCEPT !.steps = Append(@, "prepareBody"),
                             !.pc = "newrequest"]

\* req, err := http.NewRequest(method, requestURL, body);
\* if err != nil { return nil, err }; headers, authentication and cookies
\* are set on req.
ReqNewRequest ==
    /\ rq.pc = "newrequest"
    /\ IF rq.method \notin ValidMethods
       THEN rq' = [rq EXCEPT !.steps = Append(@, "NewRequest"),
                             !.err = <<"invalid method", rq.method>>, !.pc = "done"]
       ELSE rq' = [rq EXCEPT !.steps = Append(@, "NewRequest"), !.pc = "do"]

\* resp, err := c.httpClient.Do(req); if err != nil { return nil, err }
\* The transport answers after some time with a response or an error; an
\* http.Client with a non-zero Timeout gives up when it passes.
ReqDo ==
    /\ rq.pc = "do"
    /\ \E latency \in Latencies :
          IF rq.client.httpTimeout > 0 /\ latency > rq.client.httpTimeout
          THEN rq' = [rq EXCEPT !.steps = Append(@, "Do"), !.latency = latency,
                                !.err = TimeoutErr(rq.method, rq.path),
                                !.pc = "done"]
          ELSE \/ rq' = [rq EXCEPT !.steps = Append(@, "Do"), !.latency = latency,
                                   !.err = <<"transport error", rq.method, rq.path>>,
                                   !.pc = "done"]
               \/ rq' = [rq EXCEPT !.steps = Append(@, "Do"), !.latency = latency,
                                   !.pc = "read"]

\* The read error returned together with what was read.
ReqReadAll_Partial ==
    /\ rq.pc = "read"
    /\ \/ rq' = [rq EXCEPT !.steps = Append(@, "ReadAll"),
                           !.resp = <<"response", rq.method, rq.path>>,
                           !.err = <<"read error", rq.method, rq.path>>,
                           !.pc = "done"]
       \/ rq' = [rq EXCEPT !.steps = Append(@, "ReadAll"),
                           !.resp = <<"response", rq.method, rq.path>>,
                           !.pc = "done"]

\* respBody, err := io.ReadAll(resp.Body); resp.Body.Close();
\* if err != nil { return nil, err };
\* return &Response{Response: resp, Body: respBody}, nil
ReqReadAll ==
    /\ rq.pc = "read"
    /\ \/ rq' = [rq EXCEPT !.steps = Append(@, "ReadAll"),
                           !.err = <<"read error", rq.method, rq.path>>,
                           !.pc = "done"]
       \/ rq' = [rq EXCEPT !.steps = Append(@, "ReadAll"),
                           !.resp = <<"response", rq.method, rq.path>>,
                           !.pc = "done"]

InitRequest ==
    /\ PInit
    /\ CInit
    /\ \E k \in 0..MaxStack : hs = [stack |-> SubSeq(MwNames, 1, k), position |-> 0]
    /\ execs = <<>>
    /\ rt = <<>>
    /\ tm = <<>>
    /\ lg = <<>>
    /\ bk = <<>>
    /\ \E client \in Clients, method \in {"GET", "BAD METHOD"}, options \in Options,
          timeout \in 0..MaxDur :
          /\ options = "nil" => timeout = 0
          /\ rq = RequestCall(client, method, "/a", options, timeout)

NextRequest ==
    \/ ReqPrepareBody /\ UNCHANGED <<pvars, cvars, hs, execs, rt, tm, lg, bk>>
    \/ ReqNewRequest /\ UNCHANGED <<pvars, cvars, hs, execs, rt, tm, lg, bk>>
    \/ ReqDo /\ UNCHANGED <<pvars, cvars, hs, execs, rt, tm, lg, bk>>
    \/ ReqReadAll /\ UNCHANGED <<pvars, cvars, hs, execs, rt, tm, lg, bk>>

SpecRequest == InitRequest /\ [][NextRequest]_vars

----------------------------------------------------------------------------
(* Properties of the Promise *)

ChainOps == {"Then", "Catch"}

\* The Resolve / Reject calls made on promise p, by the goroutines making them.
SettleCalls(p) == {g \in GIds : gs[g].kind \in {"resolve", "reject"} /\ gs[g].p = p}

\* Goroutine g's once.Do ran (or is running) the closure of its call.
TookEffect(g) == gs[g].ran \/ gs[g].pc \in {"assign", "late_assign", "close", "unlock", "panic"}

\* What Wait returns when call g is the one that settled the promise.
OutcomeOf(g) ==
    IF gs[g].kind = "resolve" THEN <<gs[g].val, Nil>> ELSE <<Nil, gs[g].val>>

\* C1: under every interleaving of concurrent Resolve and Reject calls on one
\* promise exactly one call takes effect: the done channel is closed at most
\* once (exactly once when the calls have returned), the closure of at most
\* one call runs, and a settled promise holds the value of that one call and
\* nothing of any other call (its response and nil error, or its error and
\* nil response).
C1_ExactlyOneSettles ==
    \A p \in PIds :
        /\ ~panicked
        /\ promises[p].closed <= 1
        /\ Cardinality({g \in SettleCalls(p) : TookEffect(g)}) <= 1
        /\ Settled(p) =>
              \E g \in SettleCalls(p) : TookEffect(g) /\ WaitReturn(p) = OutcomeOf(g)
        /\ (SettleCalls(p) # {} /\ \A g \in SettleCalls(p) : gs[g].pc = "done") =>
              /\ promises[p].closed = 1
              /\ Cardinality({g \in SettleCalls(p) : gs[g].ran}) = 1

\* A Resolve and a Reject raced, both returned, and the Reject won.
C1_Witness ==
    \E g, h \in GIds :
        /\ gs[g].op = "Resolve" /\ gs[h].op = "Reject" /\ gs[g].p = gs[h].p
        /\ gs[g].pc = "done" /\ gs[h].pc = "done"
        /\ gs[h].ran /\ ~gs[g].ran
        /\ gs[h].val # Nil /\ gs[g].val # Nil

\* C2: once a promise is settled no step of any later Resolve or Reject
\* changes its response, its error or its done channel, and none panics.
C2_SettledIsFinal ==
    [][\A p \in PIds :
          Settled(p) =>
              /\ promises'[p].response = promises[p].response
              /\ promises'[p].err = promises[p].err
              /\ promises'[p].closed = promises[p].closed
              /\ ~panicked'
              /\ \A g \in SettleCalls(p) : gs'[g].pc # "panic"]_vars

\* Two calls made on a promise another call had settled have returned
\* without effect.
C2_Witness ==
    \E g, h \in GIds :
        /\ g # h /\ gs[g].p = gs[h].p
        /\ gs[g].kind = "resolve" /\ gs[h].kind = "reject"
        /\ gs[g].pc = "done" /\ gs[h].pc = "done"
        /\ ~gs[g].ran /\ ~gs[h].ran
        /\ Settled(gs[g].p)

\* C3: a Wait call that has returned did so on a settled promise, returned
\* the (response, error) pair of the call that settled it, which is the pair
\* the promise holds from then on, and every other Wait call on the promise
\* returned the same pair.
C3_WaitReturnsTheOutcome ==
    \A g \in GIds :
        (gs[g].op = "Wait" /\ gs[g].pc = "done") =>
            /\ Settled(gs[g].p)
            /\ gs[g].ret = WaitReturn(gs[g].p)
            /\ \E w \in SettleCalls(gs[g].p) : TookEffect(w) /\ gs[g].ret = OutcomeOf(w)
            /\ \A h \in GIds :
                  (gs[h].op = "Wait" /\ gs[h].pc = "done" /\ gs[h].p = gs[g].p) =>
                      gs[h].ret = gs[g].ret

\* Two Wait calls returned the response of a Resolve while a third call on
\* the promise is still to be made.
C3_Witness ==
    \E g, h, w, l \in GIds :
        /\ g # h
        /\ gs[g].op = "Wait" /\ gs[g].pc = "done"
        /\ gs[h].op = "Wait" /\ gs[h].pc = "done"
        /\ gs[w].op = "Resolve" /\ gs[w].ran /\ gs[w].val # Nil
        /\ gs[g].ret = <<gs[w].val, Nil>>
        /\ l # w /\ gs[l].kind \in {"resolve", "reject"} /\ gs[l].pc = "once"

\* C4: for the goroutine of p.Then(fn): fn is invoked at most once, and not
\* while p is pending; once the goroutine has finished, if p is fulfilled
\* with r then fn was invoked once, with r, and the new promise holds fn's
\* outcome (fn's error and no response when that error is non-nil, otherwise
\* fn's response and no error); if p is rejected with e then fn was not
\* invoked and the new promise is rejected with e.
C4_ThenSettlesWithFnOutcome ==
    \A g \in GIds :
        gs[g].op = "Then" =>
            LET s == gs[g].src
                d == gs[g].p
                out == ApplyThen(gs[g].fn, promises[s].response)
            IN /\ gs[g].calls <= 1
               /\ Pending(s) => (gs[g].calls = 0 /\ Pending(d))
               /\ gs[g].pc = "done" =>
                     /\ Settled(s) /\ Settled(d)
                     /\ IF promises[s].err = Nil
                        THEN /\ gs[g].calls = 1
                             /\ gs[g].arg = promises[s].response
                             /\ WaitReturn(d) =
                                   IF out[2] # Nil THEN <<Nil, out[2]>> ELSE <<out[1], Nil>>
                        ELSE /\ gs[g].calls = 0
                             /\ WaitReturn(d) = <<Nil, promises[s].err>>

\* A chain p.Then(fail).Then(fn) on a fulfilled p: the first fn was invoked
\* and failed, the second was not invoked and its promise carries the error.
C4_Witness ==
    \E g, h \in GIds :
        /\ gs[g].op = "Then" /\ gs[h].op = "Then"
        /\ gs[h].src = gs[g].p
        /\ gs[g].pc = "done" /\ gs[h].pc = "done"
        /\ gs[g].calls = 1 /\ gs[h].calls = 0
        /\ promises[gs[g].src].response # Nil
        /\ promises[gs[h].p].err # Nil

\* C5: for the goroutine of p.Catch(fn) on a p fulfilled with r: fn is never
\* invoked and, once the goroutine has finished, the new promise is
\* fulfilled with the same r.
C5_CatchPassesFulfilment ==
    \A g \in GIds :
        (gs[g].op = "Catch" /\ Settled(gs[g].src) /\ promises[gs[g].src].err = Nil) =>
            /\ gs[g].calls = 0
            /\ gs[g].pc = "done" =>
                  WaitReturn(gs[g].p) = <<promises[gs[g].src].response, Nil>>

\* A Catch on a promise fulfilled with a non-nil response has finished.
C5_Witness ==
    \E g \in GIds :
        /\ gs[g].op = "Catch" /\ gs[g].pc = "done"
        /\ promises[gs[g].src].err = Nil
        /\ promises[gs[g].src].response # Nil
        /\ promises[gs[g].p].response = promises[gs[g].src].response

\* C6: for the goroutine of p.Catch(fn) on a p rejected with e, once it has
\* finished: fn was invoked once, with e, and the new promise is rejected
\* with fn(e), so that Wait on it returns a non-nil error, whatever fn is.
C6_CatchRejectsWithFnError ==
    \A g \in GIds :
        (gs[g].op = "Catch" /\ gs[g].pc = "done" /\ promises[gs[g].src].err # Nil) =>
            /\ gs[g].calls = 1
            /\ gs[g].arg = promises[gs[g].src].err
            /\ promises[gs[g].p].err = ApplyCatch(gs[g].fn, promises[gs[g].src].err)
            /\ WaitReturn(gs[g].p)[2] # Nil

\* C7: Then and Catch can be called on every promise, pending or not and
\* itself returned by Then or Catch or not, without waiting for it; the
\* promise they return stays pending until the goroutine they started has
\* waited for the source and makes its Resolve or Reject call.
C7_ChainingDoesNotBlock ==
    /\ \A p \in PIds :
          NumOp(ChainOps) < MaxChain =>
              /\ \A fn \in ThenFns : ENABLED Then(p, fn)
              /\ \A fn \in CatchFns : ENABLED Catch(p, fn)
    /\ \A g \in GIds :
          gs[g].op \in ChainOps =>
              /\ gs[g].pc \in {"wait", "branch"} => Pending(gs[g].p)
              /\ gs[g].pc = "wait" => gs[g].kind = "none"
              /\ gs[g].p # gs[g].src

\* Then was called on a pending promise and Catch on the pending promise
\* that Then returned: three pending promises, two waiting goroutines.
C7_Witness ==
    \E g, h \in GIds :
        /\ gs[g].op = "Then" /\ gs[h].op = "Catch"
        /\ gs[h].src = gs[g].p
        /\ Pending(gs[g].src) /\ Pending(gs[g].p) /\ Pending(gs[h].p)
        /\ gs[g].pc = "wait" /\ gs[h].pc = "wait"

----------------------------------------------------------------------------
(* Properties of SendAsync *)

SendWorkers == {g \in GIds : gs[g].op = "SendAsync"}

\* C8: SendAsync can be called whatever the state of earlier requests and
\* the promise it returned is pending while Request runs; the promise is
\* closed at most once and, when settled, holds what Request returned (its
\* error and no response when the error is non-nil, otherwise its response
\* and no error); and once Request has returned, the promise is eventually
\* settled.
C8_SendAsyncSettles ==
    /\ [](\A g \in SendWorkers :
            /\ gs[g].pc = "request" => Pending(gs[g].p)
            /\ promises[gs[g].p].closed <= 1
            /\ ~panicked
            /\ Settled(gs[g].p) =>
                  WaitReturn(gs[g].p) =
                      IF gs[g].ret[2] # Nil THEN <<Nil, gs[g].ret[2]>>
                                            ELSE <<gs[g].ret[1], Nil>>)
    /\ [](NumOp({"SendAsync"}) < MaxSend =>
            \A r \in AsyncInputs : ENABLED SendAsync(r[1], r[2], r[3]))
    /\ \A g \in 1..(MaxSend + 1) :
          (g \in GIds /\ gs[g].pc # "request") ~> (g \in GIds /\ Settled(gs[g].p))

\* One worker has rejected its promise with the error Request returned and
\* another has fulfilled its promise, after both calls had returned promises.
C8_Witness ==
    \E g, h \in SendWorkers :
        /\ gs[g].pc = "done" /\ gs[h].pc = "done"
        /\ gs[g].ret[2] # Nil /\ promises[gs[g].p].err = gs[g].ret[2]
        /\ gs[h].ret[2] = Nil /\ promises[gs[h].p].response = gs[h].ret[1]
        /\ promises[gs[h].p].response # Nil

----------------------------------------------------------------------------
(* Properties of the bulk calls *)

\* How often slot i (from 0) of results has been written.
TimesWritten(i) == Cardinality({k \in DOMAIN writes : writes[k] = i})

\* C9: in SendConcurrent and SendConcurrentWithLimit the worker started for
\* requests[i] carries index i and that request's arguments, writes no slot
\* but slot i and writes it at most once, so no slot is written twice; the
\* slice returned has one entry per request, and entry i has Index i and the
\* response and error that Request returned for requests[i].
C9_ResultsFollowInputOrder ==
    /\ \A w \in WIds :
          /\ workers[w].index = w - 1
          /\ <<workers[w].method, workers[w].path, workers[w].options>> = requests[w]
          /\ Len(workers[w].wrote) <= 1
          /\ \A k \in DOMAIN workers[w].wrote : workers[w].wrote[k] = workers[w].index
    /\ \A i \in 0..(N - 1) : TimesWritten(i) <= 1
    /\ mainpc = "returned" =>
          /\ Len(returned) = N
          /\ \A i \in 0..(N - 1) :
                /\ returned[i + 1].Index = i
                /\ returned[i + 1].Response = workers[i + 1].resp
                /\ returned[i + 1].Error = workers[i + 1].err
                /\ <<returned[i + 1].Response, returned[i + 1].Error>> \in
                      Request(requests[i + 1][1], requests[i + 1][2], requests[i + 1][3])

\* A bounded bulk call of two different requests has returned after the
\* worker of the second request wrote its slot before the worker of the
\* first, one with a response and one with an error.
C9_Witness ==
    /\ mainpc = "returned"
    /\ limited
    /\ N >= 2
    /\ writes[1] = 1 /\ writes[2] = 0
    /\ requests[1] # requests[2]
    /\ returned[1].Response # Nil
    /\ returned[2].Error # Nil

\* C10: when SendConcurrent or SendConcurrentWithLimit has returned, a
\* worker was started for every request, every worker has written its slot
\* and finished, and the results are still what they were on return (no
\* slot is written afterwards).
C10_ReturnsAfterAllWorkers ==
    mainpc = "returned" =>
        /\ Len(workers) = N
        /\ \A w \in WIds : workers[w].pc = "done" /\ Len(workers[w].wrote) = 1
        /\ \A i \in 0..(N - 1) : TimesWritten(i) = 1
        /\ wg = 0
        /\ returned = results

\* An unbounded bulk call of as many requests as the model allows has
\* returned; a request failed and a request succeeded.
C10_Witness ==
    /\ mainpc = "returned"
    /\ ~limited
    /\ N = MaxN
    /\ \E i, j \in 1..N : returned[i].Error # Nil /\ returned[j].Response # Nil
    /\ \A w \in WIds : workers[w].pc = "done"

\* The workers past the admission gate: token acquired, not yet given back.
Admitted == {w \in WIds : workers[w].pc \in {"request", "write", "release"}}

\* C11: a failing request touches its own slot only.  Whatever the other
\* workers got, a worker about to call Request can get each outcome its own
\* request allows; the step in which a Request returns an error changes no
\* result slot, no other worker and not the caller; and on return every
\* worker has finished, every slot was written once and slot i carries the
\* error (or response) of worker i in its Error (or Response) field.
C11_FailureIsIsolated ==
    /\ [](\A w \in WIds :
            workers[w].pc = "request" =>
                \A out \in Request(workers[w].method, workers[w].path, workers[w].options) :
                    ENABLED (WorkerRequest(w) /\ workers'[w].resp = out[1]
                                              /\ workers'[w].err = out[2]))
    /\ [][\A w \in WIds :
            (workers[w].pc = "request" /\ workers'[w].pc = "write"
                                       /\ workers'[w].err # Nil) =>
                /\ results' = results /\ mainpc' = mainpc /\ wg' = wg /\ sem' = sem
                /\ \A v \in WIds \ {w} : workers'[v] = workers[v]]_vars
    /\ [](mainpc = "returned" =>
            \A w \in WIds :
                /\ workers[w].pc = "done"
                /\ TimesWritten(w - 1) = 1
                /\ returned[w].Error = workers[w].err
                /\ returned[w].Response = workers[w].resp
                /\ (workers[w].err # Nil) = (returned[w].Response = Nil))

\* Two equal requests were sent; the transport failed the first and served
\* the second, and the call returned both.
C11_Witness ==
    /\ mainpc = "returned"
    /\ N >= 2
    /\ requests[1] = requests[2]
    /\ returned[1].Error # Nil /\ returned[1].Response = Nil
    /\ returned[2].Error = Nil /\ returned[2].Response # Nil

\* C12: during SendConcurrentWithLimit with limit >= 1 the workers past the
\* gate are never more than limit; they are as many as the tokens in the
\* semaphore channel.
C12_AtMostLimitAdmitted ==
    (limited /\ limit >= 1) =>
        /\ Cardinality(Admitted) <= limit
        /\ sem = Cardinality(Admitted)

\* Limit 1, two requests: one worker is past the gate and the other waits.
C12_Witness ==
    /\ limited /\ limit = 1
    /\ \E v, w \in WIds : workers[v].pc = "request" /\ workers[w].pc = "acquire"

\* C13: in SendConcurrentWithLimit the tokens held are those of the workers
\* between acquire and release; a worker gives its token back in one step,
\* taking one token out, whether its Request returned an error or not, and
\* no token moves otherwise; a worker that holds a token is not yet counted
\* done by the WaitGroup; on return no token is held.
C13_ReleaseOnEveryPath ==
    /\ [](limited =>
            /\ sem = Cardinality(Admitted)
            /\ sem <= wg
            /\ mainpc = "returned" => sem = 0)
    /\ [][limited =>
            /\ \A w \in WIds :
                  (workers[w].pc = "release" /\ workers'[w].pc # "release") =>
                      (sem' = sem - 1 /\ workers'[w].pc = "wgdone" /\ wg' = wg)
            /\ \A w \in WIds :
                  (workers[w].pc = "write" /\ workers'[w].pc # "write") =>
                      workers'[w].pc = "release"
            /\ sem' < sem => \E w \in WIds : workers[w].pc = "release"
                                             /\ workers'[w].pc = "wgdone"]_vars

\* A bounded call has returned; one worker's Request failed, another's
\* succeeded, and the semaphore is empty.
C13_Witness ==
    /\ mainpc = "returned"
    /\ limited /\ limit >= 1
    /\ sem = 0
    /\ \E v, w \in WIds : workers[v].err # Nil /\ workers[w].resp # Nil

\* C14: in SendConcurrentWithLimit with limit >= 1, when every Request call
\* returns, every worker waiting at the gate is eventually admitted and the
\* call eventually returns, also with more requests than limit.
C14_BoundedCallReturns ==
    /\ (limited /\ limit >= 1) => <>(mainpc = "returned")
    /\ \A w \in 1..MaxN :
          (limited /\ limit >= 1 /\ w \in WIds /\ workers[w].pc = "acquire")
              ~> (w \in WIds /\ workers[w].pc # "acquire")

\* A call with more requests than limit has returned.
C14_Witness ==
    /\ mainpc = "returned"
    /\ limited /\ limit >= 1
    /\ N > limit
    /\ Len(writes) = N

----------------------------------------------------------------------------
(* Properties of the HandlerStack *)

\* The calls of one execution over the first k pushed middlewares: each
\* middleware before its call of next in push order, the terminal handler,
\* each middleware after the call in the opposite order.
ExpectedTrace(k) ==
    [i \in 1..(2 * k + 1) |->
        IF i <= k THEN <<MwNames[i], "before">>
        ELSE IF i = k + 1 THEN <<Terminal, "call">>
        ELSE <<MwNames[2 * k + 2 - i], "after">>]

IsPrefix(s, u) == Len(s) <= Len(u) /\ \A i \in 1..Len(s) : s[i] = u[i]

\* C15: an execution started by Next with the cursor at zero, running by
\* itself, makes the calls A(before), B(before), .., T, .., B(after),
\* A(after) over the middlewares pushed in the order A, B, ..: at every
\* moment its calls are the beginning of that sequence, and when it has
\* returned they are all of it, so each middleware was entered once and the
\* terminal handler was called once, after all of them.
C15_FirstPushedIsOutermost ==
    \A e \in EIds :
        (execs[e].start = 0 /\ execs[e].alone) =>
            LET want == ExpectedTrace(Len(hs.stack))
                got == execs[e].trace IN
            /\ IsPrefix(got, want)
            /\ execs[e].pc # "panic"
            /\ execs[e].pc = "done" => got = want

\* Two middlewares were pushed and an execution started at cursor zero ran
\* by itself to its end.
C15_Witness ==
    /\ Len(hs.stack) = 2
    /\ \E e \in EIds :
          /\ execs[e].start = 0 /\ execs[e].alone /\ execs[e].pc = "done"
          /\ Len(execs[e].trace) = 5

\* C16: executions started through Next on the same HandlerStack while the
\* cursor is zero, running at the same time, each enter every pushed
\* middleware in push order and then the terminal handler: none panics, and
\* one that has returned made exactly the calls of an execution running by
\* itself.
C16_CursorIsExecutionLocal ==
    \A e \in EIds :
        (execs[e].start = 0 /\ ~execs[e].alone) =>
            /\ execs[e].pc # "panic"
            /\ execs[e].pc = "done" => execs[e].trace = ExpectedTrace(Len(hs.stack))

----------------------------------------------------------------------------
(* Properties of RetryMiddleware *)

AllFailed == \A i \in DOMAIN rt.outs : rt.outs[i] = "fail"

\* C17: with maxRetries = N >= 0, every call of next failing and the context
\* never cancelled, the handler never calls next more than N + 1 times, and
\* when it has returned it called next exactly N + 1 times and returned a
\* nil response with the error of the last call.
C17_AlwaysFailingNextIsCalledNPlusOneTimes ==
    (rt.maxRetries >= 0 /\ AllFailed /\ ~rt.cancelled) =>
        /\ rt.calls <= rt.maxRetries + 1
        /\ rt.pc = "done" =>
              /\ rt.calls = rt.maxRetries + 1
              /\ rt.result = <<Nil, ErrVal(rt.calls)>>

\* RetryMiddleware(2, backoff) has returned after every call of next failed,
\* the context untouched.
C17_Witness ==
    /\ rt.pc = "done"
    /\ rt.maxRetries = 2
    /\ AllFailed /\ ~rt.cancelled
    /\ rt.calls = 3

\* C18: when the context is cancelled while the handler is blocked in the
\* select of the delay between two attempts, the handler has returned the
\* context's error, not the failed attempt's, and next was called no more
\* often than there were attempts given to the backoff, that is never again
\* after the wait began.
C18_CancelDuringDelayStopsRetrying ==
    rt.cancelAt = "blocked" =>
        /\ rt.pc = "done"
        /\ rt.result = <<Nil, CtxErr>>
        /\ rt.result[2] # rt.lastErr
        /\ rt.calls = Len(rt.consulted)

\* The context was cancelled during the delay after the second failed
\* attempt of RetryMiddleware(2, backoff) with a positive delay.
C18_Witness ==
    /\ rt.cancelAt = "blocked"
    /\ rt.maxRetries = 2
    /\ rt.calls = 2
    /\ rt.delay > 0
    /\ rt.pc = "done"

\* C19: when the context is already cancelled at the moment a failed
\* attempt with retries remaining returns, next is not called again and the
\* handler returns the context's error, whatever the delay of the backoff,
\* zero included.
C19_CancelledContextIsNeverRetried ==
    rt.abortAt # 0 =>
        /\ rt.calls = rt.abortAt
        /\ rt.pc = "done" => rt.result = <<Nil, CtxErr>>

----------------------------------------------------------------------------
(* Properties of TimeoutMiddleware *)

\* C20: next receives a request whose context is the child made from the
\* context of the caller's request with the configured duration; the cancel
\* function of the child is never called while next runs and never twice,
\* and once the handler has exited, next having returned a response or an
\* error (or panicked), it was called exactly once and the child is
\* released.
C20_ChildContextIsReleasedOnEveryExit ==
    \A c \in TIds :
        /\ tm[c].pc \in {"next", "exit", "done", "panicked"} =>
              /\ tm[c].nextCtx = <<"child", CallerCtx(c)>>
              /\ tm[c].child.parent = CallerCtx(c)
              /\ tm[c].child.timeout = tm[c].timeout
        /\ tm[c].child.cancels <= 1
        /\ tm[c].pc \in {"start", "call", "next", "exit"} => tm[c].child.cancels = 0
        /\ Exited(c) =>
              /\ tm[c].child.cancels = 1
              /\ ~tm[c].child.held
              /\ tm[c].child.err # Nil

\* Two calls have returned, one with the response of next and one with its
\* error, and each released its child context.
C20_Witness ==
    \E c, d \in TIds :
        /\ tm[c].pc = "done" /\ tm[c].out = "resp"
        /\ tm[d].pc = "done" /\ tm[d].out = "err"
        /\ tm[c].child.cancels = 1 /\ tm[d].child.cancels = 1

\* C21: when the duration passes while next is still running, the handler
\* built by TimeoutMiddleware does not go on waiting for next and hands its
\* caller the deadline error of the child context: a call that has returned
\* after such an expiry returned a nil response and that error.
C21_ExpiryEndsTheCallWithTimeoutError ==
    \A c \in TIds :
        (tm[c].expiredIn = "next" /\ tm[c].pc = "done") =>
            tm[c].result = <<Nil, DeadlineErr>>

----------------------------------------------------------------------------
(* Properties of LoggingMiddleware *)

----------------------------------------------------------------------------
(* Properties of Client.Request *)

\* What the callers' view of Request keeps of an error: a timeout of the
\* http.Client is an error of the transport call.
AsSeenByCallers(err) ==
    IF err # Nil /\ err[1] = "timeout error"
    THEN <<"transport error", err[2], err[3]>> ELSE err

\* C23: a call of Request that has returned returned a response or an error
\* and not both, whichever step it returned from; nothing is set before it
\* returns; and what it returned is one of the outcomes the goroutines of
\* SendAsync and the bulk calls are given, each of which is a response or an
\* error and not both.
C23_ResponseOrErrorNeverBothNorNeither ==
    /\ rq.pc = "done" => (rq.resp = Nil) # (rq.err = Nil)
    /\ rq.pc # "done" => (rq.resp = Nil /\ rq.err = Nil)
    /\ rq.pc = "done" =>
          <<rq.resp, AsSeenByCallers(rq.err)>> \in Request(rq.method, rq.path, rq.options)
    /\ \A out \in Request(rq.method, rq.path, rq.options) : (out[1] = Nil) # (out[2] = Nil)

\* A call returned from its last step with the read error of the body.
C23_Witness ==
    /\ rq.pc = "done"
    /\ rq.steps = <<"prepareBody", "NewRequest", "Do", "ReadAll">>
    /\ rq.resp = Nil
    /\ rq.err # Nil

\* C24: when prepareBody returns an error, Request returns that error with a
\* nil response and makes no further call: httpClient.Do is never called
\* for the request.
C24_BodyErrorStopsBeforeTransport ==
    prepareBody(rq.path, rq.options) # Nil =>
        /\ "Do" \notin {rq.steps[i] : i \in DOMAIN rq.steps}
        /\ Len(rq.steps) <= 1
        /\ rq.steps # <<>> =>
              /\ rq.pc = "done"
              /\ rq.resp = Nil
              /\ rq.err = prepareBody(rq.path, rq.options)

\* A request whose multipart data fails to encode has returned.
C24_Witness ==
    /\ rq.options = "badMultipart"
    /\ rq.pc = "done"
    /\ rq.err = <<"multipart error", rq.path>>

Called(step) == step \in {rq.steps[i] : i \in DOMAIN rq.steps}

\* C25: the request of an execution started by SendAsync, SendConcurrent or
\* SendConcurrentWithLimit, each of which calls Request, reaches the
\* transport call only through the handler stack: when httpClient.Do has
\* been called, an execution of the stack has entered the pushed
\* middlewares in push order.
C25_TransportIsReachedThroughTheStack ==
    Called("Do") =>
        \E e \in EIds :
            /\ Len(execs[e].trace) >= Len(hs.stack)
            /\ \A i \in 1..Len(hs.stack) : execs[e].trace[i] = <<hs.stack[i], "before">>

\* C26: the transport call of a request is bounded by the timeout of its
\* RequestOptions and by the timeout the client was given with WithTimeout:
\* when the transport takes longer than one of them that is set, the call
\* of Request returns a timeout error.
C26_TimeoutsBoundTheTransportCall ==
    (rq.pc \in {"read", "done"} /\ Called("Do")) =>
        /\ (rq.optTimeout > 0 /\ rq.latency > rq.optTimeout) =>
              (rq.pc = "done" /\ rq.err = TimeoutErr(rq.method, rq.path))
        /\ (rq.client.timeout > 0 /\ rq.latency > rq.client.timeout) =>
              (rq.pc = "done" /\ rq.err = TimeoutErr(rq.method, rq.path))

----------------------------------------------------------------------------
(* Further properties of the HandlerStack, RetryMiddleware and the backoff *)

\* C27: executions run one after another on the same HandlerStack each find
\* the cursor at zero when Next starts them, and one that has returned made
\* the calls of the first: every pushed middleware in push order, then the
\* terminal handler.
C27_SequentialExecutionsStartAtZero ==
    \A e \in EIds :
        /\ execs[e].start = 0
        /\ execs[e].pc = "done" => execs[e].trace = ExpectedTrace(Len(hs.stack))

\* RetryMiddleware pushed on a HandlerStack: the next it is given is hs.Next,
\* so each attempt of its loop calls hs.Next again with the cursor where the
\* attempt before left it.
RetryName == "Retry"

\* An execution of a stack holding RetryMiddleware: NewExec with the values
\* the handler in flight returned (ret).
NewStackExec ==
    [pc |-> "check", frames |-> <<>>, middleware |-> "", tmp |-> 0,
     trace |-> <<>>, start |-> hs.position, alone |-> TRUE,
     ret |-> <<Nil, Nil>>]

\* The innermost middleware the execution is inside of.
TopFrame(e) == execs[e].frames[Len(execs[e].frames)]

\* The number of times the execution made the call.
Count(e, call) ==
    Cardinality({i \in 1..Len(execs[e].trace) : execs[e].trace[i] = call})

\* The handler returns ret to the frame below it, or to the caller of Next.
ReturnFrom(e, name, ret) ==
    LET f == execs[e].frames
        n == Len(f) IN
    execs' = [execs EXCEPT
                 ![e].trace = Append(@, <<name, "after">>),
                 ![e].frames = SubSeq(f, 1, n - 1),
                 ![e].ret = ret,
                 ![e].pc = IF n = 1 THEN "done" ELSE "return"]

\* The caller calls hs.Next(req) when the execution before has returned.
StackRetryStart ==
    /\ StackRunning
    /\ Len(execs) < MaxExec
    /\ \A e \in EIds : ~Active(e)
    /\ execs' = Append(execs, NewStackExec)
    /\ UNCHANGED <<hs, rt>>

\* return middleware(hs.Next)(req) with middleware the retry middleware: the
\* handler starts with var lastErr error and attempt := 0.
StackRetryEnter(e) ==
    /\ StackRunning
    /\ execs[e].pc = "enter"
    /\ execs[e].middleware = RetryName
    /\ execs' = [execs EXCEPT
                    ![e].trace = Append(@, <<RetryName, "before">>),
                    ![e].frames = Append(@, RetryName),
                    ![e].pc = "retryloop"]
    /\ rt' = NewRetry(rt.maxRetries, rt.backoff)
    /\ UNCHANGED hs

\* for attempt := 0; attempt <= maxRetries; attempt++ { resp, err :=
\* next(req) ... } return nil, lastErr: the loop condition, then either the
\* call of next, which is hs.Next, or the return after the loop.
StackRetryLoop(e) ==
    /\ StackRunning
    /\ execs[e].pc = "retryloop"
    /\ IF MoreAttempts(rt.attempt, rt.maxRetries)
       THEN /\ execs' = [execs EXCEPT
                            ![e].trace = Append(@, <<RetryName, "next">>),
                            ![e].pc = "check"]
            /\ rt' = [rt EXCEPT !.calls = @ + 1]
       ELSE /\ ReturnFrom(e, RetryName, <<Nil, rt.lastErr>>)
            /\ rt' = [rt EXCEPT !.result = <<Nil, rt.lastErr>>, !.pc = "done"]
    /\ UNCHANGED hs

\* return hs.handler(req): the terminal handler returns a response or an
\* error.
StackTerminal(e) ==
    /\ StackRunning
    /\ execs[e].pc = "handler"
    /\ LET n == Count(e, <<Terminal, "call">>) + 1 IN
       \E ret \in {<<RespVal(n), Nil>>, <<Nil, ErrVal(n)>>} :
          execs' = [execs EXCEPT
                       ![e].trace = Append(@, <<Terminal, "call">>),
                       ![e].ret = ret,
                       ![e].pc = IF execs[e].frames = <<>> THEN "done"
                                 ELSE "return"]
    /\ UNCHANGED <<hs, rt>>

\* next returned to the retry middleware: if err == nil { return resp, nil };
\* lastErr = err; if attempt < maxRetries { delay := backoff.Delay(attempt);
\* select { Done: return nil, ctx.Err(); time.After(delay): continue } }
StackRetryReturn(e) ==
    /\ StackRunning
    /\ execs[e].pc = "return"
    /\ TopFrame(e) = RetryName
    /\ LET ret == execs[e].ret IN
       IF ret[2] = Nil
       THEN /\ ReturnFrom(e, RetryName, ret)
            /\ rt' = [rt EXCEPT !.outs = Append(@, "ok"), !.result = ret,
                                !.pc = "done"]
       ELSE IF rt.attempt < rt.maxRetries
       THEN \/ /\ execs' = [execs EXCEPT ![e].pc = "retryloop"]
               /\ rt' = [rt EXCEPT !.outs = Append(@, "fail"),
                                   !.lastErr = ret[2],
                                   !.consulted = Append(@, rt.attempt),
                                   !.delay = Delay(rt.backoff, rt.attempt),
                                   !.timerReady = TRUE,
                                   !.attempt = @ + 1]
            \/ /\ ReturnFrom(e, RetryName, <<Nil, CtxErr>>)
               /\ rt' = [rt EXCEPT !.outs = Append(@, "fail"),
                                   !.lastErr = ret[2],
                                   !.consulted = Append(@, rt.attempt),
                                   !.delay = Delay(rt.backoff, rt.attempt),
                                   !.cancelled = TRUE,
                                   !.result = <<Nil, CtxErr>>,
                                   !.pc = "done"]
       ELSE /\ execs' = [execs EXCEPT ![e].pc = "retryloop"]
            /\ rt' = [rt EXCEPT !.outs = Append(@, "fail"),
                                !.lastErr = ret[2],
                                !.attempt = @ + 1]
    /\ UNCHANGED hs

\* hs := NewHandlerStack(T); hs.Push(RetryMiddleware(n, b)); then the other
\* middlewares pushed.
InitRetryStack ==
    /\ PInit
    /\ CInit
    /\ OInit
    /\ execs = <<>>
    /\ tm = <<>>
    /\ \E k \in 0..(MaxStack - 1) :
          hs = [stack |-> <<RetryName>> \o [i \in 1..k |-> MwNames[i]],
                position |-> 0]
    /\ \E n \in (-1)..MaxRetries : \E b \in Backoffs : rt = NewRetry(n, b)

NextRetryStack ==
    \/ Reset /\ UNCHANGED <<pvars, cvars, rt, tm, ovars>>
    \/ StackRetryStart /\ UNCHANGED <<pvars, cvars, tm, ovars>>
    \/ \E e \in EIds : NextCheck(e) /\ UNCHANGED <<pvars, cvars, rt, tm, ovars>>
    \/ \E e \in EIds : NextFetch(e) /\ UNCHANGED <<pvars, cvars, rt, tm, ovars>>
    \/ \E e \in EIds : NextIncLoad(e) /\ UNCHANGED <<pvars, cvars, rt, tm, ovars>>
    \/ \E e \in EIds : NextIncStore(e) /\ UNCHANGED <<pvars, cvars, rt, tm, ovars>>
    \/ \E e \in EIds : StackRetryEnter(e) /\ UNCHANGED <<pvars, cvars, tm, ovars>>
    \/ \E e \in EIds : StackRetryLoop(e) /\ UNCHANGED <<pvars, cvars, tm, ovars>>
    \/ \E e \in EIds :
          /\ execs[e].middleware # RetryName
          /\ MiddlewareBefore(e)
          /\ UNCHANGED <<pvars, cvars, rt, tm, ovars>>
    \/ \E e \in EIds : StackTerminal(e) /\ UNCHANGED <<pvars, cvars, tm, ovars>>
    \/ \E e \in EIds :
          /\ execs[e].pc = "return"
          /\ TopFrame(e) # RetryName
          /\ MiddlewareAfter(e)
          /\ UNCHANGED <<pvars, cvars, rt, tm, ovars>>
    \/ \E e \in EIds : StackRetryReturn(e) /\ UNCHANGED <<pvars, cvars, tm, ovars>>

SpecRetryStack == InitRetryStack /\ [][NextRetryStack]_vars

\* C28: with RetryMiddleware pushed first and a middleware M after it, every
\* attempt of an execution started at cursor zero, the initial one and each
\* retry, goes through M and then the terminal handler: M is entered once
\* per attempt, and so is the terminal handler.
C28_EveryAttemptPassesThroughTheRest ==
    \A e \in EIds :
        (execs[e].pc = "done" /\ execs[e].start = 0 /\ Len(hs.stack) >= 2) =>
            /\ Count(e, <<MwNames[1], "before">>) = Count(e, <<RetryName, "next">>)
            /\ Count(e, <<Terminal, "call">>) = Count(e, <<RetryName, "next">>)

\* The attempt, counted from 0, at which next first returned a nil error in
\* the call of the retry handler; -1 when it has not.
FirstSuccess ==
    IF \E i \in 1..Len(rt.outs) : rt.outs[i] = "ok"
    THEN (CHOOSE i \in 1..Len(rt.outs) :
             /\ rt.outs[i] = "ok"
             /\ \A j \in 1..(i - 1) : rt.outs[j] # "ok") - 1
    ELSE -1

\* C29: when next first succeeds on attempt k, 0 <= k <= maxRetries, and the
\* context is not cancelled, the retry handler has called next exactly k+1
\* times, has asked the backoff policy for a delay exactly k times, for the
\* attempts 0..k-1 in that order, and returns the response of attempt k with
\* a nil error.
C29_StopsAtTheFirstSuccess ==
    (FirstSuccess >= 0 /\ ~rt.cancelled) =>
        LET k == FirstSuccess IN
        /\ k <= rt.maxRetries
        /\ rt.pc = "done"
        /\ rt.calls = k + 1
        /\ rt.consulted = [i \in 1..k |-> i - 1]
        /\ rt.result = <<RespVal(k + 1), Nil>>

\* A first success on attempt 1, after one failure and one delay, with a
\* retry still left.
C29_Witness ==
    /\ rt.pc = "done"
    /\ ~rt.cancelled
    /\ rt.outs = <<"fail", "ok">>
    /\ rt.maxRetries = 2

\* ExponentialBackoff.Delay called by itself, for the attempts 0, 1, 2, ...
\* in turn up to one past the width of the word, on a backoff with
\* 0 <= BaseDelay <= MaxDelay.
BackoffInputs ==
    {[BaseDelay |-> b, MaxDelay |-> m] : b \in 0..MaxCap, m \in 0..MaxCap}

InitBackoff ==
    /\ PInit
    /\ CInit
    /\ hs = NewHandlerStack
    /\ execs = <<>>
    /\ rt = <<>>
    /\ tm = <<>>
    /\ lg = <<>>
    /\ rq = <<>>
    /\ \E eb \in BackoffInputs :
          /\ eb.BaseDelay <= eb.MaxDelay
          /\ bk = [eb |-> eb, delays |-> <<>>]

\* delay := eb.Delay(attempt), attempt the number of calls made before.
BackoffDelay ==
    /\ Len(bk.delays) <= DurBits + 1
    /\ bk' = [bk EXCEPT !.delays = Append(@, Delay(bk.eb, Len(bk.delays)))]

NextBackoff ==
    \/ BackoffDelay /\ UNCHANGED <<pvars, cvars, hs, execs, rt, tm, lg, rq>>

SpecBackoff == InitBackoff /\ [][NextBackoff]_vars

\* C30: for 0 <= BaseDelay <= MaxDelay and every attempt >= 0, Delay(attempt)
\* is the smaller of BaseDelay * 2^attempt and MaxDelay, computed in exact
\* integers; so it is never negative, never zero when BaseDelay is positive,
\* and never smaller than the delay of the attempt before, also for attempts
\* at which the shift or the product no longer fits the word.
C30_DelayIsTheCappedPower ==
    \A i \in 1..Len(bk.delays) :
        LET exact == bk.eb.BaseDelay * (2 ^ (i - 1))
            d == bk.delays[i] IN
        /\ d = IF exact > bk.eb.MaxDelay THEN bk.eb.MaxDelay ELSE exact
        /\ d >= 0
        /\ bk.eb.BaseDelay > 0 => d > 0
        /\ i > 1 => bk.delays[i - 1] <= d

----------------------------------------------------------------------------
(* Properties of the corner cases: a limit of zero, a negative maxRetries, *)
(* WaitAll, Reject(nil).                                                   *)

\* C31: SendConcurrentWithLimit with limit = 0 and at least one request
\* admits no worker past the gate: every worker started stays at its send
\* on the semaphore, no Request is executed, no slot of results is written,
\* and the call does not return.
C31_ZeroLimitAdmitsNobody ==
    (limited /\ limit = 0 /\ N >= 1) =>
        /\ \A w \in WIds : workers[w].pc = "acquire"
        /\ \A w \in WIds : workers[w].resp = Nil /\ workers[w].err = Nil
        /\ sem = 0
        /\ writes = <<>>
        /\ \A i \in 1..Len(results) : results[i] = ZeroResponse
        /\ mainpc # "returned"
        /\ returned = <<>>

\* The caller of a call with limit 0 is at wg.Wait() with all its workers
\* started.
C31_Witness ==
    /\ limited /\ limit = 0
    /\ N >= 2
    /\ mainpc = "wait"
    /\ Len(workers) = N
    /\ wg = N

\* C32: the handler of RetryMiddleware built with a negative maxRetries
\* never calls next, and never asks the backoff for a delay; it returns a
\* nil response with a nil error.
C32_NegativeMaxRetriesReturnsNothing ==
    rt.maxRetries < 0 =>
        /\ rt.calls = 0
        /\ rt.outs = <<>>
        /\ rt.consulted = <<>>
        /\ rt.pc \in {"loop", "done"}
        /\ rt.pc = "done" => rt.result = <<Nil, Nil>>

\* The handler built with a negative maxRetries has returned.
C32_Witness ==
    /\ rt.maxRetries < 0
    /\ rt.pc = "done"
    /\ ~rt.cancelled

----------------------------------------------------------------------------
(* WaitAll, src/middleware.go lines 350-370: one worker per promise waits   *)
(* for it and writes its slot of results; the promises are settled by       *)
(* other goroutines, at most one settling call each, some by none.          *)

\* results := make([]ConcurrentResponse, len(promises)); var wg sync.WaitGroup
WaitAllBegin ==
    /\ mainpc = "start"
    /\ results' = [i \in 1..Len(promises) |-> ZeroResponse]
    /\ wg' = 0
    /\ loopi' = 0
    /\ mainpc' = IF Len(promises) = 0 THEN "wait" ELSE "loop"
    /\ UNCHANGED <<requests, limited, limit, writes, sem, workers, returned>>

\* One iteration of for i, promise := range promises: wg.Add(1) and the go
\* statement, which hands i and the promise to the worker.
WaitAllSpawn ==
    /\ mainpc = "loop"
    /\ loopi < Len(promises)
    /\ wg' = wg + 1
    /\ workers' = Append(workers,
                         [index |-> loopi, p |-> loopi + 1, pc |-> "wait",
                          resp |-> Nil, err |-> Nil, wrote |-> <<>>])
    /\ loopi' = loopi + 1
    /\ mainpc' = IF loopi + 1 = Len(promises) THEN "wait" ELSE "loop"
    /\ UNCHANGED <<requests, limited, limit, results, writes, sem, returned>>

\* The worker reading the promise's fields without waiting for it.
WaitAllWorkerWait_NoBlock(w) ==
    /\ workers[w].pc = "wait"
    /\ workers' = [workers EXCEPT ![w].resp = WaitReturn(workers[w].p)[1],
                                  ![w].err = WaitReturn(workers[w].p)[2],
                                  ![w].pc = "write"]
    /\ UNCHANGED <<requests, limited, limit, results, writes, sem, wg, mainpc, loopi,
                   returned>>

\* resp, err := p.Wait()
WaitAllWorkerWait(w) ==
    /\ workers[w].pc = "wait"
    /\ CanReceiveDone(workers[w].p)
    /\ workers' = [workers EXCEPT ![w].resp = WaitReturn(workers[w].p)[1],
                                  ![w].err = WaitReturn(workers[w].p)[2],
                                  ![w].pc = "write"]
    /\ UNCHANGED <<requests, limited, limit, results, writes, sem, wg, mainpc, loopi,
                   returned>>

\* WaitAll(p0, ..., pn-1) called on n new promises; each promise has at most
\* one Resolve or Reject call coming, made by a goroutine of its own.
InitWaitAll ==
    /\ \E n \in 0..MaxN :
          /\ promises = [i \in 1..n |-> NewPromise]
          /\ \E settlers \in SUBSET (1..n) :
             \E kinds \in [1..n -> SettleKinds] :
                LET order == CHOOSE s \in [1..Cardinality(settlers) -> settlers] :
                                \A a, b \in DOMAIN s : a < b => s[a] < s[b] IN
                gs = [g \in DOMAIN order |-> Call(kinds[order[g]], g, order[g])]
    /\ panicked = FALSE
    /\ requests = <<>>
    /\ limited = FALSE
    /\ limit = 0
    /\ results = <<>>
    /\ writes = <<>>
    /\ sem = 0
    /\ wg = 0
    /\ mainpc = "start"
    /\ loopi = 0
    /\ workers = <<>>
    /\ returned = <<>>
    /\ MInit

NextWaitAll ==
    \/ WaitAllBegin /\ UNCHANGED <<pvars, mvars>>
    \/ WaitAllSpawn /\ UNCHANGED <<pvars, mvars>>
    \/ WgWait /\ UNCHANGED <<pvars, mvars>>
    \/ \E w \in WIds : WaitAllWorkerWait(w) /\ UNCHANGED <<pvars, mvars>>
    \/ \E w \in WIds : WorkerWrite(w) /\ UNCHANGED <<pvars, mvars>>
    \/ \E w \in WIds : WorkerDone(w) /\ UNCHANGED <<pvars, mvars>>
    \/ \E g \in GIds : Running /\ Resolve(g) /\ UNCHANGED <<cvars, mvars>>
    \/ \E g \in GIds : Running /\ Reject(g) /\ UNCHANGED <<cvars, mvars>>

SpecWaitAll == InitWaitAll /\ [][NextWaitAll]_vars

\* C33: WaitAll returns only when every promise is settled (so it does not
\* return while one of them is pending), and what it returns has one entry
\* per promise, entry i holding Index i and the response and error of
\* promise i, in whatever order the promises were settled and the workers
\* wrote.
C33_WaitAllReturnsEveryPromiseByIndex ==
    mainpc = "returned" =>
        /\ \A p \in PIds : Settled(p)
        /\ Len(returned) = Len(promises)
        /\ \A p \in PIds :
              returned[p] = [Index |-> p - 1,
                             Response |-> promises[p].response,
                             Error |-> promises[p].err]

\* WaitAll has returned for two promises, one resolved and one rejected,
\* the second of which was written first.
C33_Witness ==
    /\ mainpc = "returned"
    /\ writes = <<1, 0>>
    /\ \E p, q \in PIds : promises[p].response # Nil /\ promises[q].err # Nil

----------------------------------------------------------------------------
(* Reject(nil) *)

\* Goroutine g is the call whose closure the promise's Once ran or is
\* running.
TookSettlement(g) == gs[g].ran \/ gs[g].pc \in {"assign", "close", "unlock"}

\* C34: a Reject(nil) that reaches the pending promise first takes its one
\* settlement: the promise's response and error stay nil and it is settled
\* once that call returns, every Wait that returns gives (nil, nil), and
\* every other Resolve or Reject, also one with a real response, returns
\* without its closure having run.
C34_RejectNilConsumesTheSettlement ==
    \A g \in GIds :
        (gs[g].kind = "reject" /\ gs[g].val = Nil /\ TookSettlement(g)) =>
            LET p == gs[g].p IN
            /\ promises[p].response = Nil
            /\ promises[p].err = Nil
            /\ gs[g].ran => Settled(p)
            /\ ~panicked
            /\ \A h \in GIds :
                  (gs[h].op = "Wait" /\ gs[h].p = p /\ gs[h].pc = "done") =>
                      gs[h].ret = <<Nil, Nil>>
            /\ \A h \in GIds \ {g} :
                  (gs[h].kind \in {"resolve", "reject"} /\ gs[h].p = p) =>
                      ~TookSettlement(h)

\* Reject(nil) took the settlement, a Resolve with a response has returned
\* after it, and a Wait has returned.
C34_Witness ==
    \E g, h, w \in GIds :
        /\ gs[g].kind = "reject" /\ gs[g].val = Nil /\ gs[g].ran
        /\ gs[h].kind = "resolve" /\ gs[h].val # Nil /\ gs[h].pc = "done"
        /\ ~gs[h].ran
        /\ gs[w].op = "Wait" /\ gs[w].pc = "done"

====
